---- MODULE Spec2Model ----
(***************************************************************************)
(* Multi-provider OHLC fetch orchestration: the crypto and stock routers,  *)
(* their provider adapters' post-processing, the paginated Kraken/Binance  *)
(* history fetches, the interval mappers and the symbol normalizers.       *)
(*                                                                         *)
(* Strings of the program are sequences of one-character strings, so that  *)
(* upper(), replace(), split() and endswith() are computed, not assumed.   *)
(* Wall-clock time is counted in whole seconds.                            *)
(***************************************************************************)
EXTENDS Integers, Sequences, FiniteSets, TLC

VARIABLES
    \* ---- router state (crypto_router.py, stocks_router.py)
    now,                    \* time.time(), in seconds
    LAST_REQUEST_TIME,      \* crypto_router.LAST_REQUEST_TIME
    PROVIDER_HEALTH,        \* crypto_router.PROVIDER_HEALTH
    STOCK_PROVIDER_HEALTH,  \* stocks_router.STOCK_PROVIDER_HEALTH
    req,                    \* the fetch in flight: market, symbol, interval, days, provider
    pc,                     \* position of the fetch in flight
    healthy_providers,      \* candidate list of the fetch in flight
    idx,                    \* index of the candidate being tried
    wake,                   \* end of the asyncio.sleep in progress
    attempts,               \* adapter invocations of the fetch in flight, in order
    ret,                    \* what the fetch returned (or raised)
    adapter_starts,         \* log: per crypto provider the start of its last adapter call,
                            \* and the smallest gap seen between two consecutive ones
    fetches,                \* number of fetches started
    \* ---- paginated history fetch (crypto_kraken_rest.py, crypto_binance.py)
    pg,
    \* ---- pure functions applied to drawn inputs
    fn_in,
    fn_out,
    \* ---- provider health API (crypto_router.py)
    snapshot,               \* the map get_provider_health last returned to its caller
    last_call,              \* history: the last call of the health API
    \* ---- live stream selection (crypto_router.get_crypto_stream)
    stream,
    \* ---- symbols endpoint rate limiter (routers/symbols.py)
    rate_limiter_store,     \* per client IP the request times kept
    accepted,               \* history: per client IP the times of the requests accepted
    \* ---- concurrent crypto fetches (crypto_router._fetch_from_provider)
    tasks,
    \* ---- stock router (stocks_router.py)
    stock_starts,           \* log: per stock provider the start of its last adapter call,
                            \* and the smallest gap seen between two consecutive ones
    \* ---- websocket endpoint /ws/crypto/ohlc (main.py)
    handler,                \* one connection: the handler's position, its message task,
                            \* the client, what was sent
    \* ---- indicator endpoint /api/indicators/calculate (routers/indicators.py)
    cache                   \* _indicator_cache, _cache_timestamps, the clock and the
                            \* last request with its response

routerVars == <<now, LAST_REQUEST_TIME, PROVIDER_HEALTH, STOCK_PROVIDER_HEALTH, req, pc,
                healthy_providers, idx, wake, attempts, ret, adapter_starts, fetches>>
fnVars == <<fn_in, fn_out>>
healthVars == <<snapshot, last_call>>
otherVars == <<stream, rate_limiter_store, accepted, tasks>>
restVars == <<handler, cache>>
moreVars == <<stock_starts, restVars>>
sideVars == <<healthVars, otherVars, moreVars>>
vars == <<routerVars, pg, fnVars, sideVars>>

None == "none"

(***************************************************************************)
(* Generic helpers                                                         *)
(***************************************************************************)
Min(a, b) == IF a <= b THEN a ELSE b
Range(s) == {s[i] : i \in 1..Len(s)}

\* Python s[-n:] on a list (s[-0:] is the whole list)
LastN(s, n) ==
    IF n <= 0 \/ n >= Len(s) THEN s ELSE SubSeq(s, Len(s) - n + 1, Len(s))

\* Python s[:n] for n >= 0
FirstN(s, n) == IF n >= Len(s) THEN s ELSE SubSeq(s, 1, n)

(***************************************************************************)
(* Interval mappers                                                        *)
(***************************************************************************)
MaxInterval == 43201

\* _interval_to_kraken with the thresholds compared strictly
_interval_to_kraken_strict(interval) ==
    IF interval < 1 THEN 1
    ELSE IF interval < 5 THEN 5
    ELSE IF interval < 15 THEN 15
    ELSE IF interval < 30 THEN 30
    ELSE IF interval < 60 THEN 60
    ELSE IF interval < 240 THEN 240
    ELSE IF interval < 1440 THEN 1440
    ELSE IF interval < 10080 THEN 10080
    ELSE 21600

\* crypto_kraken_rest._interval_to_kraken
_interval_to_kraken(interval) ==
    IF interval <= 1 THEN 1
    ELSE IF interval <= 5 THEN 5
    ELSE IF interval <= 15 THEN 15
    ELSE IF interval <= 30 THEN 30
    ELSE IF interval <= 60 THEN 60
    ELSE IF interval <= 240 THEN 240
    ELSE IF interval <= 1440 THEN 1440
    ELSE IF interval <= 10080 THEN 10080
    ELSE 21600

\* the resolutions _interval_to_kraken can return
KrakenResolutions == {1, 5, 15, 30, 60, 240, 1440, 10080, 21600}

\* crypto_binance._interval_to_binance
_interval_to_binance(interval) ==
    IF interval <= 1 THEN "1m"
    ELSE IF interval <= 3 THEN "3m"
    ELSE IF interval <= 5 THEN "5m"
    ELSE IF interval <= 15 THEN "15m"
    ELSE IF interval <= 30 THEN "30m"
    ELSE IF interval <= 60 THEN "1h"
    ELSE IF interval <= 120 THEN "2h"
    ELSE IF interval <= 240 THEN "4h"
    ELSE IF interval <= 360 THEN "6h"
    ELSE IF interval <= 480 THEN "8h"
    ELSE IF interval <= 720 THEN "12h"
    ELSE IF interval <= 1440 THEN "1d"
    ELSE IF interval <= 4320 THEN "3d"
    ELSE IF interval <= 10080 THEN "1w"
    ELSE "1M"

\* minutes denoted by each code _interval_to_binance can return (1M: a 30-day month)
BinanceMinutes ==
    [c \in {"1m", "3m", "5m", "15m", "30m", "1h", "2h", "4h", "6h", "8h", "12h",
            "1d", "3d", "1w", "1M"} |->
        CASE c = "1m" -> 1 [] c = "3m" -> 3 [] c = "5m" -> 5 [] c = "15m" -> 15
          [] c = "30m" -> 30 [] c = "1h" -> 60 [] c = "2h" -> 120 [] c = "4h" -> 240
          [] c = "6h" -> 360 [] c = "8h" -> 480 [] c = "12h" -> 720 [] c = "1d" -> 1440
          [] c = "3d" -> 4320 [] c = "1w" -> 10080 [] c = "1M" -> 43200]

BinanceResolutions == {BinanceMinutes[c] : c \in DOMAIN BinanceMinutes}

\* stocks_alpaca._interval_to_alpaca_timeframe
_interval_to_alpaca_timeframe(interval_minutes) ==
    IF interval_minutes = 1 THEN "1Min"
    ELSE IF interval_minutes = 5 THEN "5Min"
    ELSE IF interval_minutes = 15 THEN "15Min"
    ELSE IF interval_minutes = 30 THEN "30Min"
    ELSE IF interval_minutes = 60 THEN "1Hour"
    ELSE IF interval_minutes >= 1440 THEN "1Day"
    ELSE "1Min"

AlpacaMinutes ==
    [c \in {"1Min", "5Min", "15Min", "30Min", "1Hour", "1Day"} |->
        CASE c = "1Min" -> 1 [] c = "5Min" -> 5 [] c = "15Min" -> 15
          [] c = "30Min" -> 30 [] c = "1Hour" -> 60 [] c = "1Day" -> 1440]

\* stocks_finnhub.fetch_finnhub_bars, the resolution mapping
finnhub_resolution(interval) ==
    IF interval = 1 THEN "1"
    ELSE IF interval = 5 THEN "5"
    ELSE IF interval = 15 THEN "15"
    ELSE IF interval = 30 THEN "30"
    ELSE IF interval = 60 THEN "60"
    ELSE "D"

FinnhubMinutes ==
    [c \in {"1", "5", "15", "30", "60", "D"} |->
        CASE c = "1" -> 1 [] c = "5" -> 5 [] c = "15" -> 15
          [] c = "30" -> 30 [] c = "60" -> 60 [] c = "D" -> 1440]

\* stocks_polygon.fetch_polygon_bars, the (multiplier, timespan) mapping
polygon_timespan(interval) ==
    IF interval = 1 THEN <<1, "minute">>
    ELSE IF interval = 5 THEN <<5, "minute">>
    ELSE IF interval = 15 THEN <<15, "minute">>
    ELSE IF interval = 30 THEN <<30, "minute">>
    ELSE IF interval = 60 THEN <<1, "hour">>
    ELSE <<1, "day">>

PolygonMinutes(mt) ==
    mt[1] * (CASE mt[2] = "minute" -> 1 [] mt[2] = "hour" -> 60 [] mt[2] = "day" -> 1440)

\* the minute resolutions of the Alpaca, Finnhub and stock-Polygon mappings
StockMinuteResolutions == {1, 5, 15, 30, 60}

\* the smallest member of a resolution set that is >= m
Ceiling(S, m) == CHOOSE r \in S : r >= m /\ \A q \in S : q >= m => r <= q

(***************************************************************************)
(* Python string operations on sequences of one-character strings          *)
(***************************************************************************)
LowerLetters == <<"a","b","c","d","e","f","g","h","i","j","k","l","m",
                  "n","o","p","q","r","s","t","u","v","w","x","y","z">>
UpperLetters == <<"A","B","C","D","E","F","G","H","I","J","K","L","M",
                  "N","O","P","Q","R","S","T","U","V","W","X","Y","Z">>

UpperChar(c) ==
    IF \E i \in 1..Len(LowerLetters) : LowerLetters[i] = c
    THEN UpperLetters[CHOOSE i \in 1..Len(LowerLetters) : LowerLetters[i] = c]
    ELSE c

LowerChar(c) ==
    IF \E i \in 1..Len(UpperLetters) : UpperLetters[i] = c
    THEN LowerLetters[CHOOSE i \in 1..Len(UpperLetters) : UpperLetters[i] = c]
    ELSE c

\* str.upper(), str.lower()
Upper(s) == [i \in 1..Len(s) |-> UpperChar(s[i])]
Lower(s) == [i \in 1..Len(s) |-> LowerChar(s[i])]

\* str.startswith at position i (1-based): s[i:].startswith(sub)
StartsAt(s, i, sub) ==
    /\ i + Len(sub) - 1 <= Len(s)
    /\ \A k \in 1..Len(sub) : s[i + k - 1] = sub[k]

\* str.endswith
EndsWith(s, suffix) ==
    Len(suffix) <= Len(s) /\ StartsAt(s, Len(s) - Len(suffix) + 1, suffix)

\* sub in s
Contains(s, sub) == \E i \in 1..(Len(s) + 1) : StartsAt(s, i, sub)

\* str.replace(old, new) for a non-empty old: every non-overlapping occurrence,
\* scanning from the left
RECURSIVE ReplaceFrom(_, _, _, _)
ReplaceFrom(s, i, old, new) ==
    IF i > Len(s) THEN <<>>
    ELSE IF StartsAt(s, i, old) THEN new \o ReplaceFrom(s, i + Len(old), old, new)
    ELSE <<s[i]>> \o ReplaceFrom(s, i + 1, old, new)

Replace(s, old, new) == ReplaceFrom(s, 1, old, new)

\* index of the first occurrence of the one-character separator (0 if none)
FindChar(s, c) ==
    IF \E i \in 1..Len(s) : s[i] = c
    THEN CHOOSE i \in 1..Len(s) : s[i] = c /\ \A j \in 1..(i - 1) : s[j] # c
    ELSE 0

\* str.split(sep, 1) on a string that contains sep: <<before, after>>
Split1(s, c) ==
    LET i == FindChar(s, c)
    IN <<SubSeq(s, 1, i - 1), SubSeq(s, i + 1, Len(s))>>

\* str.split(sep)[0]
SplitHead(s, c) ==
    LET i == FindChar(s, c)
    IN IF i = 0 THEN s ELSE SubSeq(s, 1, i - 1)

\* str.strip() (blanks only: the inputs hold no other whitespace)
RECURSIVE LStrip(_)
LStrip(s) == IF s # <<>> /\ Head(s) = " " THEN LStrip(Tail(s)) ELSE s
RECURSIVE RStrip(_)
RStrip(s) ==
    IF s # <<>> /\ s[Len(s)] = " " THEN RStrip(SubSeq(s, 1, Len(s) - 1)) ELSE s
Strip(s) == RStrip(LStrip(s))

\* the words the normalizers' tables and the requests are written with
Word ==
    [SLASH |-> <<"/">>,
     DASH |-> <<"-">>,
     UNDERSCORE |-> <<"_">>,
     ADA |-> <<"A","D","A">>,
     ALGO |-> <<"A","L","G","O">>,
     ATOM |-> <<"A","T","O","M">>,
     AVAX |-> <<"A","V","A","X">>,
     BCH |-> <<"B","C","H">>,
     BTC |-> <<"B","T","C">>,
     DOGE |-> <<"D","O","G","E">>,
     DOT |-> <<"D","O","T">>,
     ETH |-> <<"E","T","H">>,
     EUR |-> <<"E","U","R">>,
     FIL |-> <<"F","I","L">>,
     LINK |-> <<"L","I","N","K">>,
     LTC |-> <<"L","T","C">>,
     MATIC |-> <<"M","A","T","I","C">>,
     SOL |-> <<"S","O","L">>,
     UNI |-> <<"U","N","I">>,
     USD |-> <<"U","S","D">>,
     USDC |-> <<"U","S","D","C">>,
     USDT |-> <<"U","S","D","T">>,
     XBT |-> <<"X","B","T">>,
     ONE |-> <<"1">>,
     THREE |-> <<"3">>,
     AAPL |-> <<"A","A","P","L">>,
     BRK_B |-> <<"B","R","K",".","B">>]

(***************************************************************************)
(* Symbol normalizers                                                      *)
(***************************************************************************)
\* crypto_binance._to_binance_symbol: the mappings table, as key/value pairs
binance_mappings ==
    { <<Word.XBT \o Word.USD, Word.BTC \o Word.USDT>>, <<Word.XBT \o Word.USDT, Word.BTC \o Word.USDT>>,
      <<Word.BTC \o Word.USD, Word.BTC \o Word.USDT>>, <<Word.ETH \o Word.USD, Word.ETH \o Word.USDT>>,
      <<Word.ADA \o Word.USD, Word.ADA \o Word.USDT>>, <<Word.SOL \o Word.USD, Word.SOL \o Word.USDT>>,
      <<Word.DOT \o Word.USD, Word.DOT \o Word.USDT>>, <<Word.LINK \o Word.USD, Word.LINK \o Word.USDT>>,
      <<Word.UNI \o Word.USD, Word.UNI \o Word.USDT>>, <<Word.MATIC \o Word.USD, Word.MATIC \o Word.USDT>>,
      <<Word.AVAX \o Word.USD, Word.AVAX \o Word.USDT>>, <<Word.LTC \o Word.USD, Word.LTC \o Word.USDT>>,
      <<Word.BCH \o Word.USD, Word.BCH \o Word.USDT>> }

\* dict membership and lookup on a table of key/value pairs
InTable(t, k) == \E e \in t : e[1] = k
Lookup(t, k) == (CHOOSE e \in t : e[1] = k)[2]

\* _to_binance_symbol without the upper() before the separators are removed
_to_binance_symbol_cased(symbol) ==
    IF symbol = <<>> THEN <<>>
    ELSE
      LET s == Replace(Replace(Replace(symbol, Word.SLASH, <<>>), Word.DASH, <<>>), Word.UNDERSCORE, <<>>)
      IN IF InTable(binance_mappings, s) THEN Lookup(binance_mappings, s)
         ELSE IF EndsWith(s, Word.USD) /\ ~EndsWith(s, Word.USDT) THEN Replace(s, Word.USD, Word.USDT)
         ELSE IF Contains(symbol, Word.SLASH)
         THEN LET base == Strip(Upper(Split1(symbol, "/")[1]))
                  quote0 == Strip(Upper(Split1(symbol, "/")[2]))
                  quote == IF quote0 = Word.USD THEN Word.USDT ELSE quote0
              IN base \o quote
         ELSE s

\* crypto_binance._to_binance_symbol
_to_binance_symbol(symbol) ==
    IF symbol = <<>> THEN <<>>
    ELSE
      LET s == Replace(Replace(Replace(Upper(symbol), Word.SLASH, <<>>), Word.DASH, <<>>),
                       Word.UNDERSCORE, <<>>)
      IN IF InTable(binance_mappings, s) THEN Lookup(binance_mappings, s)
         ELSE IF EndsWith(s, Word.USD) /\ ~EndsWith(s, Word.USDT) THEN Replace(s, Word.USD, Word.USDT)
         ELSE IF Contains(symbol, Word.SLASH)
         THEN LET base == Strip(Upper(Split1(symbol, "/")[1]))
                  quote0 == Strip(Upper(Split1(symbol, "/")[2]))
                  quote == IF quote0 = Word.USD THEN Word.USDT ELSE quote0
              IN base \o quote
         ELSE s

\* crypto_kraken_rest._to_kraken_pair: the chain of exact matches, as key/value
\* pairs (the keys that hold a separator can never equal s, which has none)
kraken_mappings ==
    { <<Word.BTC \o Word.USD, Word.XBT \o Word.USD>>, <<Word.XBT \o Word.USD, Word.XBT \o Word.USD>>,
      <<Word.BTC \o Word.SLASH \o Word.USD, Word.XBT \o Word.USD>>, <<Word.XBT \o Word.SLASH \o Word.USD, Word.XBT \o Word.USD>>,
      <<Word.BTC \o Word.EUR, Word.XBT \o Word.EUR>>, <<Word.XBT \o Word.EUR, Word.XBT \o Word.EUR>>,
      <<Word.BTC \o Word.SLASH \o Word.EUR, Word.XBT \o Word.EUR>>, <<Word.XBT \o Word.SLASH \o Word.EUR, Word.XBT \o Word.EUR>>,
      <<Word.ETH \o Word.USD, Word.ETH \o Word.USD>>, <<Word.ETH \o Word.SLASH \o Word.USD, Word.ETH \o Word.USD>>,
      <<Word.ETH \o Word.EUR, Word.ETH \o Word.EUR>>, <<Word.ETH \o Word.SLASH \o Word.EUR, Word.ETH \o Word.EUR>>,
      <<Word.ETH \o Word.BTC, Word.ETH \o Word.XBT>>, <<Word.ETH \o Word.SLASH \o Word.BTC, Word.ETH \o Word.XBT>>,
      <<Word.ETH \o Word.XBT, Word.ETH \o Word.XBT>>, <<Word.ETH \o Word.SLASH \o Word.XBT, Word.ETH \o Word.XBT>>,
      <<Word.ADA \o Word.USD, Word.ADA \o Word.USD>>, <<Word.ADA \o Word.SLASH \o Word.USD, Word.ADA \o Word.USD>>,
      <<Word.DOT \o Word.USD, Word.DOT \o Word.USD>>, <<Word.DOT \o Word.SLASH \o Word.USD, Word.DOT \o Word.USD>>,
      <<Word.SOL \o Word.USD, Word.SOL \o Word.USD>>, <<Word.SOL \o Word.SLASH \o Word.USD, Word.SOL \o Word.USD>>,
      <<Word.LINK \o Word.USD, Word.LINK \o Word.USD>>, <<Word.LINK \o Word.SLASH \o Word.USD, Word.LINK \o Word.USD>>,
      <<Word.UNI \o Word.USD, Word.UNI \o Word.USD>>, <<Word.UNI \o Word.SLASH \o Word.USD, Word.UNI \o Word.USD>>,
      <<Word.MATIC \o Word.USD, Word.MATIC \o Word.USD>>, <<Word.MATIC \o Word.SLASH \o Word.USD, Word.MATIC \o Word.USD>> }

\* crypto_kraken_rest._to_kraken_pair
_to_kraken_pair(symbol) ==
    IF symbol = <<>> THEN <<>>
    ELSE
      LET s == Replace(Replace(Upper(symbol), Word.DASH, <<>>), Word.SLASH, <<>>)
      IN IF InTable(kraken_mappings, s) THEN Lookup(kraken_mappings, s)
         ELSE IF Contains(symbol, Word.SLASH)
         THEN LET base == Strip(Upper(Split1(symbol, "/")[1]))
                  quote0 == Strip(Upper(Split1(symbol, "/")[2]))
                  quote == IF quote0 = Word.BTC THEN Word.XBT ELSE quote0
              IN base \o quote
         ELSE s

\* crypto_coinbase._to_coinbase_symbol: the mappings table
coinbase_mappings ==
    { <<Word.XBT \o Word.USD, Word.BTC \o Word.DASH \o Word.USD>>,
      <<Word.XBT \o Word.SLASH \o Word.USD, Word.BTC \o Word.DASH \o Word.USD>>,
      <<Word.BTC \o Word.SLASH \o Word.USD, Word.BTC \o Word.DASH \o Word.USD>>,
      <<Word.ETH \o Word.SLASH \o Word.USD, Word.ETH \o Word.DASH \o Word.USD>>,
      <<Word.ADA \o Word.SLASH \o Word.USD, Word.ADA \o Word.DASH \o Word.USD>>,
      <<Word.SOL \o Word.SLASH \o Word.USD, Word.SOL \o Word.DASH \o Word.USD>>,
      <<Word.DOT \o Word.SLASH \o Word.USD, Word.DOT \o Word.DASH \o Word.USD>>,
      <<Word.LINK \o Word.SLASH \o Word.USD, Word.LINK \o Word.DASH \o Word.USD>>,
      <<Word.UNI \o Word.SLASH \o Word.USD, Word.UNI \o Word.DASH \o Word.USD>>,
      <<Word.MATIC \o Word.SLASH \o Word.USD, Word.MATIC \o Word.DASH \o Word.USD>>,
      <<Word.AVAX \o Word.SLASH \o Word.USD, Word.AVAX \o Word.DASH \o Word.USD>>,
      <<Word.LTC \o Word.SLASH \o Word.USD, Word.LTC \o Word.DASH \o Word.USD>> }

\* crypto_coinbase._to_coinbase_symbol
_to_coinbase_symbol(symbol) ==
    IF symbol = <<>> THEN <<>>
    ELSE
      LET s == Upper(symbol)
      IN IF InTable(coinbase_mappings, s) THEN Lookup(coinbase_mappings, s)
         ELSE IF Contains(symbol, Word.SLASH) THEN Replace(Upper(symbol), Word.SLASH, Word.DASH)
         ELSE IF ~Contains(symbol, Word.DASH) /\ Len(symbol) >= 3
         THEN Upper(symbol) \o Word.DASH \o Word.USD
         ELSE Upper(symbol)

\* crypto_router._to_yfinance_crypto_symbol: the mappings table
yfinance_mappings ==
    { <<Word.BTC \o Word.SLASH \o Word.USD, Word.BTC \o Word.DASH \o Word.USD>>,
      <<Word.ETH \o Word.SLASH \o Word.USD, Word.ETH \o Word.DASH \o Word.USD>>,
      <<Word.ADA \o Word.SLASH \o Word.USD, Word.ADA \o Word.DASH \o Word.USD>>,
      <<Word.SOL \o Word.SLASH \o Word.USD, Word.SOL \o Word.ONE \o Word.DASH \o Word.USD>>,
      <<Word.DOT \o Word.SLASH \o Word.USD, Word.DOT \o Word.ONE \o Word.DASH \o Word.USD>>,
      <<Word.LINK \o Word.SLASH \o Word.USD, Word.LINK \o Word.DASH \o Word.USD>>,
      <<Word.UNI \o Word.SLASH \o Word.USD, Word.UNI \o Word.THREE \o Word.DASH \o Word.USD>>,
      <<Word.MATIC \o Word.SLASH \o Word.USD, Word.MATIC \o Word.DASH \o Word.USD>>,
      <<Word.AVAX \o Word.SLASH \o Word.USD, Word.AVAX \o Word.DASH \o Word.USD>>,
      <<Word.LTC \o Word.SLASH \o Word.USD, Word.LTC \o Word.DASH \o Word.USD>>,
      <<Word.XBT \o Word.SLASH \o Word.USD, Word.BTC \o Word.DASH \o Word.USD>>,
      <<Word.BCH \o Word.SLASH \o Word.USD, Word.BCH \o Word.DASH \o Word.USD>>,
      <<Word.ATOM \o Word.SLASH \o Word.USD, Word.ATOM \o Word.ONE \o Word.DASH \o Word.USD>>,
      <<Word.ALGO \o Word.SLASH \o Word.USD, Word.ALGO \o Word.DASH \o Word.USD>>,
      <<Word.FIL \o Word.SLASH \o Word.USD, Word.FIL \o Word.DASH \o Word.USD>> }

\* crypto_router._to_yfinance_crypto_symbol
_to_yfinance_crypto_symbol(symbol) ==
    LET s == Upper(symbol)
    IN IF InTable(yfinance_mappings, s) THEN Lookup(yfinance_mappings, s)
       ELSE IF Contains(symbol, Word.SLASH) THEN Replace(Upper(symbol), Word.SLASH, Word.DASH)
       ELSE Upper(symbol) \o Word.DASH \o Word.USD

(***************************************************************************)
(* Bars and the list operations of the adapters                            *)
(*                                                                         *)
(* A row is one record of an upstream payload: ok = "ok" for a well-formed *)
(* record, "short" for one with missing fields, "value" for a non-numeric  *)
(* field, "null" for a null field.  A bar is the canonical record built    *)
(* from a well-formed row; close stands for its OHLCV values.              *)
(***************************************************************************)
Bar(row) == [ts |-> row.ts, close |-> row.close]

\* list.sort(key=lambda x: x["ts"]) / sorted(..., key=...): stable, ascending
RECURSIVE InsertByTs(_, _)
InsertByTs(sorted, b) ==
    IF sorted = <<>> THEN <<b>>
    ELSE IF sorted[Len(sorted)].ts <= b.ts THEN Append(sorted, b)
    ELSE Append(InsertByTs(SubSeq(sorted, 1, Len(sorted) - 1), b), sorted[Len(sorted)])

RECURSIVE SortByTs(_)
SortByTs(bars) ==
    IF bars = <<>> THEN <<>>
    ELSE InsertByTs(SortByTs(SubSeq(bars, 1, Len(bars) - 1)), bars[Len(bars)])

\* sorted(keys) of a set of integers
RECURSIVE SortedKeys(_)
SortedKeys(S) ==
    IF S = {} THEN <<>>
    ELSE LET m == CHOOSE x \in S : \A y \in S : x <= y
         IN <<m>> \o SortedKeys(S \ {m})

\* UniqByTs keeping the first value written for a key
UniqByTs_first(out) ==
    [k \in {out[i].ts : i \in 1..Len(out)} |->
        out[CHOOSE i \in 1..Len(out) :
                out[i].ts = k /\ \A j \in 1..(i - 1) : out[j].ts # k]]

\* {o["ts"]: o for o in out}: the value kept for a key is the last one written
UniqByTs(out) ==
    [k \in {out[i].ts : i \in 1..Len(out)} |->
        out[CHOOSE i \in 1..Len(out) :
                out[i].ts = k /\ \A j \in (i + 1)..Len(out) : out[j].ts # k]]

\* crypto_kraken_rest.fetch_ohlc_days_kraken, "Deduplicate and sort"
kraken_dedup(out, max_bars) ==
    IF out # <<>>
    THEN LET uniq == UniqByTs(out)
             keys == SortedKeys(DOMAIN uniq)
         IN LastN([i \in 1..Len(keys) |-> uniq[keys[i]]], max_bars)
    ELSE out

\* crypto_binance.fetch_binance_ohlc_days, "Remove duplicates and sort"
binance_dedup(all_data, max_bars) ==
    IF all_data # <<>>
    THEN LET unique_data == UniqByTs(all_data)
             keys == SortedKeys(DOMAIN unique_data)
             values == [i \in 1..Len(keys) |-> unique_data[keys[i]]]
         IN LastN(SortByTs(values), max_bars)
    ELSE all_data

(***************************************************************************)
(* Paginated history fetches.  The upstream is a non-empty sequence of     *)
(* responses, answered cyclically: request number k (from 0) gets          *)
(* responses[(k % Len) + 1].                                               *)
(***************************************************************************)
Answer(responses, k) == responses[(k % Len(responses)) + 1]

\* crypto_kraken_rest._is_valid_symbol
allowed_chars == Range(UpperLetters) \cup {"0","1","2","3","4","5","6","7","8","9","/"}
_is_valid_symbol(symbol) ==
    /\ symbol # <<>>
    /\ Len(symbol) >= 3
    /\ \A i \in 1..Len(symbol) : Upper(symbol)[i] \in allowed_chars

KRAKEN_SAFETY_LOOP == 20
KRAKEN_MAX_BARS == 5000
BINANCE_MAX_BARS == 5000
BINANCE_PAGE == 1000
MINUTES_PER_DAY == 1440

\* the rows of one Kraken page appended to out, up to the first row whose parse
\* raises outside (ValueError, IndexError): <<out, raised>>
RECURSIVE kraken_rows(_, _, _)
kraken_rows(out, series, i) ==
    IF i > Len(series) THEN <<out, FALSE>>
    ELSE IF series[i].ok = "ok" THEN kraken_rows(Append(out, Bar(series[i])), series, i + 1)
    ELSE IF series[i].ok = "null" THEN <<out, TRUE>>
    ELSE kraken_rows(out, series, i + 1)

\* the safety loop without the `new_last == last` test
RECURSIVE kraken_loop_resends(_, _, _, _)
kraken_loop_resends(attempt, out, max_bars, responses) ==
    IF attempt >= KRAKEN_SAFETY_LOOP THEN [out |-> out, requests |-> attempt]
    ELSE
      LET r == Answer(responses, attempt)
          stop(o) == [out |-> o, requests |-> attempt + 1]
      IN IF r.kind # "ok" THEN stop(out)
         ELSE LET rows == kraken_rows(out, r.series, 1)
              IN IF rows[2] THEN stop(rows[1])
                 ELSE IF r.series # <<>> /\ Len(rows[1]) >= max_bars THEN stop(rows[1])
                 ELSE IF r.last = "missing" THEN stop(rows[1])
                 ELSE kraken_loop_resends(attempt + 1, rows[1], max_bars, responses)

\* crypto_kraken_rest.fetch_ohlc_days_kraken, the safety loop from `attempt` on:
\* [out |-> accumulated bars, requests |-> requests issued so far]
RECURSIVE kraken_loop(_, _, _, _)
kraken_loop(attempt, out, max_bars, responses) ==
    IF attempt >= KRAKEN_SAFETY_LOOP THEN [out |-> out, requests |-> attempt]
    ELSE
      LET r == Answer(responses, attempt)
          stop(o) == [out |-> o, requests |-> attempt + 1]
      IN IF r.kind # "ok" THEN stop(out)
         ELSE LET rows == kraken_rows(out, r.series, 1)
              IN IF rows[2] THEN stop(rows[1])
                 ELSE IF r.series # <<>> /\ Len(rows[1]) >= max_bars THEN stop(rows[1])
                 ELSE IF r.last \in {"missing", "same"} THEN stop(rows[1])
                 ELSE kraken_loop(attempt + 1, rows[1], max_bars, responses)

\* crypto_kraken_rest.fetch_ohlc_days_kraken
fetch_ohlc_days_kraken(symbol, interval, days, max_bars, responses) ==
    IF ~_is_valid_symbol(symbol) THEN [out |-> <<>>, requests |-> 0]
    ELSE IF _to_kraken_pair(symbol) = <<>> THEN [out |-> <<>>, requests |-> 0]
    ELSE LET l == kraken_loop(0, <<>>, max_bars, responses)
         IN [out |-> kraken_dedup(l.out, max_bars), requests |-> l.requests]

MS_PER_SECOND == 1000

\* crypto_binance.fetch_binance_ohlc: the bar built from a candle, whose open time is
\* in milliseconds
BinanceBar(candle) == [ts |-> candle.ts \div MS_PER_SECOND, close |-> candle.close]

\* the candles of one Binance response parsed: <<result, raised>>
RECURSIVE binance_rows(_, _, _)
binance_rows(result, data, i) ==
    IF i > Len(data) THEN <<result, FALSE>>
    ELSE IF data[i].ok = "ok"
    THEN binance_rows(Append(result, BinanceBar(data[i])), data, i + 1)
    ELSE IF data[i].ok = "null" THEN <<result, TRUE>>
    ELSE binance_rows(result, data, i + 1)

\* crypto_binance.fetch_binance_ohlc on one upstream response
fetch_binance_ohlc(symbol, interval, limit, r) ==
    IF _to_binance_symbol(symbol) = <<>> THEN <<>>
    ELSE IF r.kind # "ok" THEN <<>>
    ELSE LET rows == binance_rows(<<>>, r.series, 1)
         IN IF rows[2] THEN <<>> ELSE rows[1]

\* crypto_binance.fetch_binance_ohlc_days, the request loop from request i on
RECURSIVE binance_loop(_, _, _, _, _, _, _)
binance_loop(i, all_data, requests_needed, total_bars_needed, symbol, interval, responses) ==
    IF i >= requests_needed THEN [out |-> all_data, requests |-> i]
    ELSE
      LET limit == Min(BINANCE_PAGE, total_bars_needed - Len(all_data))
      IN IF limit <= 0 THEN [out |-> all_data, requests |-> i]
         ELSE LET batch == fetch_binance_ohlc(symbol, interval, limit, Answer(responses, i))
              IN IF batch = <<>>
                 THEN [out |-> all_data,
                       requests |-> IF _to_binance_symbol(symbol) = <<>> THEN i ELSE i + 1]
                 ELSE binance_loop(i + 1, all_data \o batch, requests_needed,
                                   total_bars_needed, symbol, interval, responses)

\* crypto_binance.fetch_binance_ohlc_days (interval >= 1)
fetch_binance_ohlc_days(symbol, interval, days, max_bars, responses) ==
    LET bars_per_day == MINUTES_PER_DAY \div interval
        total_bars_needed == Min(days * bars_per_day, max_bars)
        requests_needed == (total_bars_needed + 999) \div BINANCE_PAGE
        l == binance_loop(0, <<>>, requests_needed, total_bars_needed, symbol,
                          interval, responses)
    IN [out |-> binance_dedup(l.out, max_bars), requests |-> l.requests]

(***************************************************************************)
(* fetch_binance_ohlc_days against an upstream that serves what was asked: *)
(* the klines endpoint holds `history` candles, numbered 1..history by     *)
(* open time, and a call with `limit` returns the `limit` most recent of   *)
(* them (the request carries no start or end time).  Every candle is       *)
(* well-formed, so a list of bars is represented by its length and the set *)
(* of its timestamps.                                                      *)
(***************************************************************************)
\* crypto_binance.fetch_binance_ohlc: the timestamps of the bars returned for `limit`
klines_recent(history, limit) == (history - Min(limit, history) + 1)..history

\* the request loop from request i on: n = len(all_data), seen = the timestamps in it
RECURSIVE recent_loop(_, _, _, _, _, _)
recent_loop(i, n, seen, requests_needed, total_bars_needed, history) ==
    IF i >= requests_needed THEN [n |-> n, seen |-> seen, requests |-> i]
    ELSE
      LET limit == Min(BINANCE_PAGE, total_bars_needed - n)
      IN IF limit <= 0 THEN [n |-> n, seen |-> seen, requests |-> i]
         ELSE LET batch == klines_recent(history, limit)
              IN IF batch = {} THEN [n |-> n, seen |-> seen, requests |-> i + 1]
                 ELSE recent_loop(i + 1, n + Cardinality(batch), seen \cup batch,
                                  requests_needed, total_bars_needed, history)

\* crypto_binance.fetch_binance_ohlc_days: the timestamps of the bars returned
\* (unique by ts, sorted, the last max_bars kept) and the requests made
binance_days_recent(interval, days, max_bars, history) ==
    LET bars_per_day == MINUTES_PER_DAY \div interval
        total_bars_needed == Min(days * bars_per_day, max_bars)
        requests_needed == (total_bars_needed + 999) \div BINANCE_PAGE
        l == recent_loop(0, 0, {}, requests_needed, total_bars_needed, history)
        kept == IF max_bars <= 0 \/ max_bars >= Cardinality(l.seen) THEN l.seen
                ELSE {t \in l.seen : Cardinality({u \in l.seen : u > t}) < max_bars}
    IN [out |-> kept, fetched |-> l.n, requests |-> l.requests,
        total_bars_needed |-> total_bars_needed]

(***************************************************************************)
(* Single-call adapters: what each returns for an upstream payload of rows,*)
(* in the order upstream sent them                                         *)
(***************************************************************************)
Bars(rows) == [i \in 1..Len(rows) |-> Bar(rows[i])]

COINBASE_MAX == 300
MOCK_LIMIT == 1000
TRADING_MINUTES == 390

\* crypto_router._fetch_from_provider, the coinbase branch, and
\* crypto_coinbase.fetch_coinbase_ohlc: data[:limit], then sort
fetch_coinbase_ohlc(symbol, interval, days, data) ==
    LET bars_needed == Min(days * (MINUTES_PER_DAY \div interval), COINBASE_MAX)
    IN IF _to_coinbase_symbol(symbol) = <<>> THEN <<>>
       ELSE SortByTs(Bars(FirstN(data, bars_needed)))

\* crypto_router._fetch_yfinance_crypto and stocks_yfinance.fetch_recent_ohlc:
\* data.tail(limit), in frame order
_fetch_yfinance_crypto(symbol, interval, days, data) ==
    LET limit == days * (MINUTES_PER_DAY \div interval)
    IN IF data = <<>> THEN <<>>
       ELSE IF limit <= 0 THEN <<>>
       ELSE Bars(LastN(data, limit))

\* every row of the payload converts.  The stock adapters convert the rows in one
\* loop with no handler of its own: a row with a missing, null or non-numeric field
\* raises, and the adapter's outer `except Exception` returns []
Converts(data) == \A i \in 1..Len(data) : data[i].ok = "ok"

\* stocks_polygon.fetch_polygon_bars: upstream order, last 1000
fetch_polygon_bars(data) == IF Converts(data) THEN LastN(Bars(data), 1000) ELSE <<>>

\* stocks_yfinance_improved.fetch_yfinance_improved: upstream order, last 1000
fetch_yfinance_improved(data) == LastN(Bars(data), 1000)

\* stocks_finnhub.fetch_finnhub_bars: sorted, last 1000
fetch_finnhub_bars(data) == IF Converts(data) THEN LastN(SortByTs(Bars(data)), 1000) ELSE <<>>

\* stocks_alpaca.fetch_alpaca_bars: upstream order
fetch_alpaca_bars(data) == IF Converts(data) THEN Bars(data) ELSE <<>>

\* stocks_yfinance.fetch_ohlc_days_yf: frame order
fetch_ohlc_days_yf(data) == Bars(data)

\* stocks_router._fetch_alpha_vantage_bars: sorted, limited to the requested days
_fetch_alpha_vantage_bars(interval, days, data) ==
    LET ohlc_data == SortByTs(Bars(data))
        max_bars == IF interval < MINUTES_PER_DAY
                    THEN days * (TRADING_MINUTES \div interval) ELSE days
    IN IF ~Converts(data) THEN <<>>
       ELSE IF Len(ohlc_data) > max_bars THEN LastN(ohlc_data, max_bars) ELSE ohlc_data

\* the adapter returns bars without having looked at its API key
Keyed_ignored(unset, api_key, bars) == [kind |-> "list", out |-> bars, requests |-> 1]

\* the check the keyed stock adapters start with (stocks_polygon lines 27-30,
\* stocks_finnhub 27-30, stocks_alpaca 58-60, stocks_router 188-190): with the key
\* unset, [] is returned before any request is built; otherwise one request is made
\* and bars is what the adapter makes of the answer
Keyed(unset, api_key, bars) ==
    IF api_key \in unset THEN [kind |-> "list", out |-> <<>>, requests |-> 0]
    ELSE [kind |-> "list", out |-> bars, requests |-> 1]

(***************************************************************************)
(* Synthetic fallback                                                      *)
(***************************************************************************)
\* datetime.weekday() of the day holding second t (Monday = 0; day 0 a Thursday)
weekday(t) == ((t \div 86400) + 3) % 7

\* mock_stock_data.generate_realistic_ohlcv, market_close at wall-clock time t
market_close(t) ==
    LET day == t \div 86400
        hour == (t % 86400) \div 3600
    IN IF weekday(t) >= 5
       THEN (day - (weekday(t) - 4)) * 86400 + 16 * 3600
       ELSE IF hour < 9
       THEN (day - 1) * 86400 + 15 * 3600 + 1800
       ELSE day * 86400 + 15 * 3600 + 1800

\* mock_stock_data.generate_realistic_ohlcv called at wall-clock time t; close
\* stands for the OHLCV values drawn from random seeded with hash(symbol)
generate_realistic_ohlcv(symbol, interval, count, t) ==
    [i \in 1..count |-> [ts |-> market_close(t) + ((i - 1) * interval * 60), close |-> i]]

\* stocks_router.fetch_stock_history, "Final fallback", called at time t
stock_fallback(symbol, interval, days, t) ==
    LET bars_needed == IF interval < MINUTES_PER_DAY
                       THEN Min(days * (TRADING_MINUTES \div interval), MOCK_LIMIT)
                       ELSE Min(days, MOCK_LIMIT)
    IN generate_realistic_ohlcv(symbol, interval, bars_needed, t)

(***************************************************************************)
(* Stock symbol validation                                                 *)
(***************************************************************************)
\* stocks_router.ALL_US_STOCKS (a sample: every member without a dot is one to
\* five capital letters, and so also matches the first pattern)
ALL_US_STOCKS == {Word.AAPL, Word.BRK_B}

IsCapitals(s, lo, hi) ==
    Len(s) >= lo /\ Len(s) <= hi /\ \A i \in 1..Len(s) : s[i] \in Range(UpperLetters)

\* stocks_router._is_valid_stock_symbol
_is_valid_stock_symbol(symbol) ==
    IF symbol = <<>> THEN FALSE
    ELSE LET clean_symbol == SplitHead(Upper(symbol), ".")
             u == Upper(symbol)
         IN \/ clean_symbol \in ALL_US_STOCKS
            \/ IsCapitals(clean_symbol, 1, 5)
            \/ /\ Len(u) >= 3
               /\ IsCapitals(SubSeq(u, 1, Len(u) - 2), 1, 4)
               /\ u[Len(u) - 1] = "."
               /\ IsCapitals(<<u[Len(u)]>>, 1, 1)

(***************************************************************************)
(* The routers.  One fetch is in flight at a time; it is split where the   *)
(* code awaits (the spacing sleep, the adapter call).                      *)
(***************************************************************************)
MaxFetches == 2
MaxTime == 4
MaxTs == 2

MIN_REQUEST_INTERVAL == 2

PROVIDER_PRIORITY == <<"binance", "kraken", "coinbase", "yfinance">>
STOCK_PROVIDER_PRIORITY ==
    <<"polygon", "yfinance_improved", "finnhub", "alpaca", "yfinance", "alpha_vantage">>
\* a provider name neither router knows
UNKNOWN == "other"

CryptoProviders == Range(PROVIDER_PRIORITY)
StockProviders == Range(STOCK_PROVIDER_PRIORITY)

ETH_USD == Word.ETH \o Word.SLASH \o Word.USD

\* the fetch requests the callers issue
CryptoRequests ==
    {[market |-> "crypto", symbol |-> ETH_USD, interval |-> 1, days |-> 1, provider |-> p] :
        p \in CryptoProviders}
    \cup {[market |-> "crypto", symbol |-> Lower(ETH_USD), interval |-> 1, days |-> 2,
           provider |-> "auto"]}

StockRequests ==
    {[market |-> "stock", symbol |-> Word.AAPL, interval |-> 60, days |-> 1, provider |-> p] :
        p \in StockProviders \cup {UNKNOWN}}
    \cup {[market |-> "stock", symbol |-> Word.AAPL, interval |-> 720, days |-> 1,
           provider |-> "auto"],
          [market |-> "stock", symbol |-> Lower(Word.BRK_B), interval |-> 1440, days |-> 2,
           provider |-> "auto"]}
    \cup {[market |-> "stock", symbol |-> <<"A", "1">>, interval |-> 60, days |-> 1,
           provider |-> p] : p \in {"auto", "polygon"}}

NoRequest == [market |-> None, symbol |-> <<>>, interval |-> 1, days |-> 1, provider |-> None]

\* upstream payloads: one or two well-formed rows with timestamps in 1..MaxTs, in
\* any order, duplicates included; close is the row's position in the payload
Payloads ==
    UNION {{[i \in 1..n |-> [ts |-> f[i], close |-> i, ok |-> "ok"]] : f \in [1..n -> 1..MaxTs]} :
             n \in 1..2}

\* upstreams of the paginated adapters seen through the routers: one page, or two
\* one-row pages with an advancing cursor
RouterPages ==
    {<<[kind |-> "ok", series |-> d, last |-> "missing"]>> : d \in Payloads}
    \cup {<<[kind |-> "ok", series |-> d, last |-> "advanced"],
            [kind |-> "ok", series |-> e, last |-> "same"]>> :
             d \in {x \in Payloads : Len(x) = 1}, e \in {x \in Payloads : Len(x) = 1}}

\* responses with the rows' timestamps in milliseconds
Millis(responses) ==
    [k \in 1..Len(responses) |->
        [responses[k] EXCEPT !.series =
            [i \in 1..Len(responses[k].series) |->
                [responses[k].series[i] EXCEPT !.ts = @ * MS_PER_SECOND]]]]

NoReturn == [kind |-> None, bars |-> <<>>, synthetic |-> FALSE]
Returned(bars) == [kind |-> "list", bars |-> bars, synthetic |-> FALSE]
Raised == [kind |-> "raise", bars |-> <<>>, synthetic |-> FALSE]

\* the module state after import, but for the request times
RouterStart ==
    /\ now = MIN_REQUEST_INTERVAL
    /\ PROVIDER_HEALTH = [p \in CryptoProviders |-> TRUE]
    /\ STOCK_PROVIDER_HEALTH = [p \in StockProviders |-> TRUE]
    /\ req = NoRequest
    /\ pc = "idle"
    /\ healthy_providers = <<>>
    /\ idx = 0
    /\ wake = 0
    /\ attempts = <<>>
    /\ ret = NoReturn
    /\ adapter_starts = [last |-> [p \in CryptoProviders |-> 0], min_gap |-> -1]
    /\ fetches = 0

RouterInit == RouterStart /\ LAST_REQUEST_TIME = [p \in CryptoProviders |-> 0]

\* [p for p in PRIORITY if HEALTH.get(p, True)]
RECURSIVE HealthyOf(_, _)
HealthyOf(priority, health) ==
    IF priority = <<>> THEN <<>>
    ELSE (IF Head(priority) \in DOMAIN health => health[Head(priority)]
          THEN <<Head(priority)>> ELSE <<>>) \o HealthyOf(Tail(priority), health)

\* no wait at all
wait_time_none(t, last) == 0

\* wait_time computed one second short
wait_time_short(t, last) ==
    IF t - last < MIN_REQUEST_INTERVAL THEN MIN_REQUEST_INTERVAL - (t - last) - 1 ELSE 0

\* crypto_router._fetch_from_provider: the time to sleep before a request at time t
\* to a provider last requested at time last (0: none)
wait_time(t, last) ==
    IF t - last < MIN_REQUEST_INTERVAL THEN MIN_REQUEST_INTERVAL - (t - last) ELSE 0

\* the log of adapter starts after provider p's adapter starts now (min_gap -1: no
\* provider was called twice yet)
LogStart(p) ==
    LET gap == now - adapter_starts.last[p]
    IN [last |-> [adapter_starts.last EXCEPT ![p] = now],
        min_gap |-> IF adapter_starts.last[p] = 0 THEN adapter_starts.min_gap
                    ELSE IF adapter_starts.min_gap = -1 THEN gap
                    ELSE Min(gap, adapter_starts.min_gap)]

\* crypto_router._fetch_from_provider, line 68 and the dispatch: stamp the provider
\* and invoke its adapter; att is the log of adapter invocations so far
StampAndCall(p, att) ==
    /\ LAST_REQUEST_TIME' = [LAST_REQUEST_TIME EXCEPT ![p] = now]
    /\ pc' = "call"
    /\ attempts' = IF p \in CryptoProviders
                   THEN Append(att, [prov |-> p, out |-> None, bars |-> <<>>])
                   ELSE att
    /\ adapter_starts' = IF p \in CryptoProviders THEN LogStart(p) ELSE adapter_starts

\* crypto_router._fetch_from_provider, lines 60-68: up to the first await
EnterProvider(p, att) ==
    IF wait_time(now, LAST_REQUEST_TIME[p]) > 0
    THEN /\ pc' = "sleep"
         /\ wake' = now + wait_time(now, LAST_REQUEST_TIME[p])
         /\ attempts' = att
         /\ UNCHANGED <<LAST_REQUEST_TIME, adapter_starts>>
    ELSE /\ StampAndCall(p, att)
         /\ wake' = wake

\* the log of adapter invocations with the outcome of the last one filled in:
\* "list" with the bars it returned, "empty" if it returned nothing, "raised" if it
\* raised
WithOutcome(att, o, bars) ==
    IF att = <<>> THEN att
    ELSE [att EXCEPT ![Len(att)].out = o, ![Len(att)].bars = bars]

\* the outcome of an adapter call that returned data
OutcomeOf(data) == IF Len(data) > 0 THEN "list" ELSE "empty"

\* crypto_router.fetch_history_crypto is called
fetch_history_crypto(r) ==
    /\ pc = "idle"
    /\ fetches < MaxFetches
    /\ fetches' = fetches + 1
    /\ req' = r
    /\ idx' = 1
    /\ LET cands == IF r.provider # "auto" THEN <<r.provider>>
                    ELSE HealthyOf(PROVIDER_PRIORITY, PROVIDER_HEALTH)
       IN /\ healthy_providers' = cands
          /\ IF cands = <<>>
             THEN /\ ret' = Returned(<<>>)
                  /\ pc' = "done"
                  /\ attempts' = <<>>
                  /\ UNCHANGED <<LAST_REQUEST_TIME, adapter_starts, wake>>
             ELSE /\ ret' = NoReturn
                  /\ EnterProvider(cands[1], <<>>)
    /\ UNCHANGED <<now, PROVIDER_HEALTH, STOCK_PROVIDER_HEALTH, pg, fnVars, sideVars>>

\* crypto_router._fetch_from_provider: asyncio.sleep(wait_time) returns
crypto_wake ==
    /\ pc = "sleep"
    /\ now >= wake
    /\ StampAndCall(healthy_providers[idx], attempts)
    /\ UNCHANGED <<now, PROVIDER_HEALTH, STOCK_PROVIDER_HEALTH, req, healthy_providers, idx,
                   wake, ret, fetches, pg, fnVars, sideVars>>

\* crypto_next that gives up after the first candidate that failed
crypto_next_stops(att) ==
    /\ ret' = Returned(<<>>)
    /\ pc' = "done"
    /\ attempts' = att
    /\ UNCHANGED <<idx, wake, LAST_REQUEST_TIME, adapter_starts>>

\* crypto_router.fetch_history_crypto: the loop moves past a candidate that raised
\* or returned nothing; after the last one it returns []
crypto_next(att) ==
    IF idx < Len(healthy_providers)
    THEN /\ idx' = idx + 1
         /\ EnterProvider(healthy_providers[idx + 1], att)
         /\ ret' = ret
    ELSE /\ ret' = Returned(<<>>)
         /\ pc' = "done"
         /\ attempts' = att
         /\ UNCHANGED <<idx, wake, LAST_REQUEST_TIME, adapter_starts>>

\* what the adapter of crypto provider p returns for request r on upstream u
crypto_adapter(p, r, u) ==
    CASE p = "binance" ->
           fetch_binance_ohlc_days(r.symbol, r.interval, r.days, BINANCE_MAX_BARS, u).out
      [] p = "kraken" ->
           fetch_ohlc_days_kraken(r.symbol, r.interval, r.days, KRAKEN_MAX_BARS, u).out
      [] p = "coinbase" -> fetch_coinbase_ohlc(r.symbol, r.interval, r.days, u)
      [] p = "yfinance" -> _fetch_yfinance_crypto(r.symbol, r.interval, r.days, u)

FailedPage == <<[kind |-> "http_error", series |-> <<>>, last |-> "missing"]>>

\* the upstreams provider p may show (Binance stamps its candles in milliseconds)
Upstreams(p) ==
    IF p = "binance" THEN {Millis(u) : u \in RouterPages} \cup {FailedPage}
    ELSE IF p = "kraken" THEN RouterPages \cup {FailedPage}
    ELSE Payloads \cup {<<>>}

\* the adapter call of the crypto fetch in flight returns a list
crypto_adapter_returns ==
    /\ pc = "call"
    /\ req.market = "crypto"
    /\ healthy_providers[idx] \in CryptoProviders
    /\ \E u \in Upstreams(healthy_providers[idx]) :
         LET p == healthy_providers[idx]
             data == crypto_adapter(p, req, u)
             att == WithOutcome(attempts, OutcomeOf(data), data)
         IN IF req.provider # "auto"
            THEN /\ ret' = Returned(data)
                 /\ pc' = "done"
                 /\ attempts' = att
                 /\ UNCHANGED <<PROVIDER_HEALTH, idx, wake, LAST_REQUEST_TIME, adapter_starts>>
            ELSE IF Len(data) > 0
            THEN /\ PROVIDER_HEALTH' = [PROVIDER_HEALTH EXCEPT ![p] = TRUE]
                 /\ ret' = Returned(data)
                 /\ pc' = "done"
                 /\ attempts' = att
                 /\ UNCHANGED <<idx, wake, LAST_REQUEST_TIME, adapter_starts>>
            ELSE /\ crypto_next(att)
                 /\ UNCHANGED PROVIDER_HEALTH
    /\ UNCHANGED <<now, STOCK_PROVIDER_HEALTH, req, healthy_providers, fetches, pg, fnVars, sideVars>>

\* crypto_adapter_raises with the exception of an explicit provider swallowed
crypto_adapter_swallows ==
    /\ pc = "call"
    /\ req.market = "crypto"
    /\ LET att == WithOutcome(attempts, "raised", <<>>)
       IN IF req.provider # "auto"
          THEN /\ ret' = Returned(<<>>)
               /\ pc' = "done"
               /\ attempts' = att
               /\ UNCHANGED <<idx, wake, LAST_REQUEST_TIME, adapter_starts>>
          ELSE crypto_next(att)
    /\ UNCHANGED <<now, PROVIDER_HEALTH, STOCK_PROVIDER_HEALTH, req, healthy_providers,
                   fetches, pg, fnVars, sideVars>>

\* crypto_adapter_raises with the provider that raised marked unhealthy
crypto_adapter_demotes ==
    /\ pc = "call"
    /\ req.market = "crypto"
    /\ PROVIDER_HEALTH' = [PROVIDER_HEALTH EXCEPT ![healthy_providers[idx]] = FALSE]
    /\ LET att == WithOutcome(attempts, "raised", <<>>)
       IN IF req.provider # "auto"
          THEN /\ ret' = Raised
               /\ pc' = "done"
               /\ attempts' = att
               /\ UNCHANGED <<idx, wake, LAST_REQUEST_TIME, adapter_starts>>
          ELSE crypto_next(att)
    /\ UNCHANGED <<now, STOCK_PROVIDER_HEALTH, req, healthy_providers,
                   fetches, pg, fnVars, sideVars>>

\* the call of the crypto fetch in flight raises: the adapter (or its import) fails,
\* or the provider name is unknown (ValueError)
crypto_adapter_raises ==
    /\ pc = "call"
    /\ req.market = "crypto"
    /\ LET att == WithOutcome(attempts, "raised", <<>>)
       IN IF req.provider # "auto"
          THEN /\ ret' = Raised
               /\ pc' = "done"
               /\ attempts' = att
               /\ UNCHANGED <<idx, wake, LAST_REQUEST_TIME, adapter_starts>>
          ELSE crypto_next(att)
    /\ UNCHANGED <<now, PROVIDER_HEALTH, STOCK_PROVIDER_HEALTH, req, healthy_providers,
                   fetches, pg, fnVars, sideVars>>

\* stocks_router._fetch_from_stock_provider: invoke the adapter of p
CallStock(p, att) ==
    /\ pc' = "call"
    /\ attempts' = IF p \in StockProviders
                   THEN Append(att, [prov |-> p, out |-> None, bars |-> <<>>])
                   ELSE att

\* stocks_router.fetch_stock_history is called
fetch_stock_history(r) ==
    /\ pc = "idle"
    /\ fetches < MaxFetches
    /\ fetches' = fetches + 1
    /\ req' = r
    /\ idx' = 1
    /\ LET cands == IF r.provider # "auto" THEN <<r.provider>>
                    ELSE HealthyOf(STOCK_PROVIDER_PRIORITY, STOCK_PROVIDER_HEALTH)
       IN IF ~_is_valid_stock_symbol(r.symbol)
          THEN /\ ret' = Returned(<<>>)
               /\ pc' = "done"
               /\ attempts' = <<>>
               /\ healthy_providers' = <<>>
          ELSE /\ ret' = NoReturn
               /\ healthy_providers' = cands
               /\ CallStock(cands[1], <<>>)
    /\ UNCHANGED <<now, LAST_REQUEST_TIME, PROVIDER_HEALTH, STOCK_PROVIDER_HEALTH, wake,
                   adapter_starts, pg, fnVars, healthVars, otherVars, restVars>>

\* stocks_router.fetch_stock_history: the loop moves past a candidate that raised or
\* returned nothing; after the last one it returns the synthetic series, if any
stock_next(att) ==
    IF idx < Len(healthy_providers)
    THEN /\ idx' = idx + 1
         /\ CallStock(healthy_providers[idx + 1], att)
         /\ ret' = ret
    ELSE LET mock_data == stock_fallback(req.symbol, req.interval, req.days, now)
         IN /\ ret' = IF Len(mock_data) > 0
                      THEN [kind |-> "list", bars |-> mock_data, synthetic |-> TRUE]
                      ELSE Returned(<<>>)
            /\ pc' = "done"
            /\ attempts' = att
            /\ idx' = idx

\* what the adapter of stock provider p returns for request r on upstream payload u
stock_adapter(p, r, u) ==
    IF u = <<>> THEN <<>>
    ELSE CASE p = "polygon" -> fetch_polygon_bars(u)
           [] p = "yfinance_improved" -> fetch_yfinance_improved(u)
           [] p = "finnhub" -> fetch_finnhub_bars(u)
           [] p = "alpaca" -> fetch_alpaca_bars(u)
           [] p = "yfinance" -> fetch_ohlc_days_yf(u)
           [] p = "alpha_vantage" -> _fetch_alpha_vantage_bars(r.interval, r.days, u)

\* the adapter call of the stock fetch in flight returns a list
stock_adapter_returns ==
    /\ pc = "call"
    /\ req.market = "stock"
    /\ healthy_providers[idx] \in StockProviders
    /\ \E u \in Payloads \cup {<<>>} :
         LET p == healthy_providers[idx]
             data == stock_adapter(p, req, u)
             att == WithOutcome(attempts, OutcomeOf(data), data)
         IN IF req.provider # "auto"
            THEN /\ ret' = Returned(data)
                 /\ pc' = "done"
                 /\ attempts' = att
                 /\ UNCHANGED <<STOCK_PROVIDER_HEALTH, idx>>
            ELSE IF Len(data) > 0
            THEN /\ STOCK_PROVIDER_HEALTH' = [STOCK_PROVIDER_HEALTH EXCEPT ![p] = TRUE]
                 /\ ret' = Returned(data)
                 /\ pc' = "done"
                 /\ attempts' = att
                 /\ idx' = idx
            ELSE /\ stock_next(att)
                 /\ UNCHANGED STOCK_PROVIDER_HEALTH
    /\ UNCHANGED <<now, LAST_REQUEST_TIME, PROVIDER_HEALTH, req, healthy_providers, wake,
                   adapter_starts, fetches, pg, fnVars, healthVars, otherVars, restVars>>

\* the call of the stock fetch in flight raises: the adapter (or its import) fails,
\* or the provider name is unknown (ValueError)
stock_adapter_raises ==
    /\ pc = "call"
    /\ req.market = "stock"
    /\ LET att == WithOutcome(attempts, "raised", <<>>)
       IN IF req.provider # "auto"
          THEN /\ ret' = Raised
               /\ pc' = "done"
               /\ attempts' = att
               /\ idx' = idx
          ELSE stock_next(att)
    /\ UNCHANGED <<now, LAST_REQUEST_TIME, PROVIDER_HEALTH, STOCK_PROVIDER_HEALTH, req,
                   healthy_providers, wake, adapter_starts, fetches, pg, fnVars, healthVars, otherVars, restVars>>

\* the caller takes the result (or the exception) of the fetch in flight
fetch_done ==
    /\ pc = "done"
    /\ pc' = "idle"
    /\ req' = NoRequest
    /\ healthy_providers' = <<>>
    /\ idx' = 0
    /\ wake' = 0
    /\ attempts' = <<>>
    /\ ret' = NoReturn
    /\ UNCHANGED <<now, LAST_REQUEST_TIME, PROVIDER_HEALTH, STOCK_PROVIDER_HEALTH,
                   adapter_starts, fetches, pg, fnVars, healthVars, otherVars, restVars>>

\* a second of wall-clock time passes: between fetches, during the spacing sleep or
\* during the adapter call of a crypto fetch.  The stock router reads the clock only
\* for the synthetic series, so a second that passes during a stock fetch is a second
\* that passed before it.
Tick ==
    /\ pc # "done"
    /\ req.market # "stock"
    /\ now < MaxTime \/ (pc = "sleep" /\ now < wake)
    /\ now' = now + 1
    /\ UNCHANGED <<LAST_REQUEST_TIME, PROVIDER_HEALTH, STOCK_PROVIDER_HEALTH, req, pc,
                   healthy_providers, idx, wake, attempts, ret, adapter_starts, fetches,
                   pg, fnVars, healthVars, otherVars, restVars>>

(***************************************************************************)
(* Provider health API (crypto_router.py).  A dict is a function; a map    *)
(* handed to a caller also records whether it is the module's own dict.    *)
(***************************************************************************)
\* {p: True for p in priority}
AllHealthy(priority) == [p \in Range(priority) |-> TRUE]

NoSnapshot == [held |-> FALSE, shared |-> FALSE, map |-> [p \in {} |-> TRUE]]
NoCall == [fn |-> None, after_edit |-> FALSE]

\* d[k] = v
Put(d, k, v) == [x \in DOMAIN d \cup {k} |-> IF x = k THEN v ELSE d[x]]

\* del d[k]
Del(d, k) == [x \in DOMAIN d \ {k} |-> d[x]]

\* the module's own dict handed out
dict_alias(d) == [held |-> TRUE, shared |-> TRUE, map |-> d]

\* dict.copy(): a new dict with the same items
dict_copy(d) == [held |-> TRUE, shared |-> FALSE, map |-> d]

\* crypto_router.get_provider_health
get_provider_health ==
    /\ snapshot' = dict_copy(PROVIDER_HEALTH)
    /\ UNCHANGED <<routerVars, pg, fnVars, otherVars, moreVars>>

\* the caller of get_provider_health writes entry k of the map it was given
caller_writes(k, v) ==
    /\ snapshot.held
    /\ snapshot' = [snapshot EXCEPT !.map = Put(@, k, v)]
    /\ PROVIDER_HEALTH' = IF snapshot.shared THEN Put(PROVIDER_HEALTH, k, v)
                          ELSE PROVIDER_HEALTH
    /\ UNCHANGED <<now, LAST_REQUEST_TIME, STOCK_PROVIDER_HEALTH, req, pc, healthy_providers,
                   idx, wake, attempts, ret, adapter_starts, fetches, pg, fnVars, otherVars, moreVars>>

\* the caller of get_provider_health deletes entry k of the map it was given
caller_deletes(k) ==
    /\ snapshot.held
    /\ k \in DOMAIN snapshot.map
    /\ snapshot' = [snapshot EXCEPT !.map = Del(@, k)]
    /\ PROVIDER_HEALTH' = IF snapshot.shared THEN Del(PROVIDER_HEALTH, k) ELSE PROVIDER_HEALTH
    /\ UNCHANGED <<now, LAST_REQUEST_TIME, STOCK_PROVIDER_HEALTH, req, pc, healthy_providers,
                   idx, wake, attempts, ret, adapter_starts, fetches, pg, fnVars, otherVars, moreVars>>

\* reset_provider_health that also forgets when each provider was last requested
reset_provider_health_clears ==
    /\ PROVIDER_HEALTH' = AllHealthy(PROVIDER_PRIORITY)
    /\ LAST_REQUEST_TIME' = [p \in DOMAIN LAST_REQUEST_TIME |-> 0]
    /\ snapshot' = [snapshot EXCEPT !.shared = FALSE]
    /\ UNCHANGED <<now, STOCK_PROVIDER_HEALTH, req, pc, healthy_providers,
                   idx, wake, attempts, ret, adapter_starts, fetches, pg, fnVars, otherVars, moreVars>>

\* crypto_router.reset_provider_health: the global is bound to a new dict, so a map
\* handed out before is no longer the module's
reset_provider_health ==
    /\ PROVIDER_HEALTH' = AllHealthy(PROVIDER_PRIORITY)
    /\ snapshot' = [snapshot EXCEPT !.shared = FALSE]
    /\ UNCHANGED <<now, LAST_REQUEST_TIME, STOCK_PROVIDER_HEALTH, req, pc, healthy_providers,
                   idx, wake, attempts, ret, adapter_starts, fetches, pg, fnVars, otherVars, moreVars>>

HealthIdle == snapshot = NoSnapshot /\ last_call = NoCall

\* no stream was asked for
NoStream ==
    [provider |-> None, symbol |-> <<>>, source |-> None, state |-> "none", opened |-> <<>>,
     candles |-> 0]
StreamIdle == stream = NoStream

\* the clients of the symbols endpoint
ClientIPs == {"10.0.0.1", "10.0.0.2"}
LimiterIdle ==
    /\ rate_limiter_store = [ip \in {} |-> <<>>]
    /\ accepted = [ip \in ClientIPs |-> <<>>]

\* the callers that fetch concurrently
Callers == {1, 2}
NoTask == [pc |-> "idle", prov |-> None, entered |-> 0, seen |-> 0, wake |-> 0, start |-> 0]
TasksIdle == tasks = [i \in Callers |-> NoTask]

NoStarts == [last |-> [p \in StockProviders |-> 0], min_gap |-> -1]
StockLogIdle == stock_starts = NoStarts

\* no websocket connection yet
NoHandler ==
    [pc |-> "idle", symbol |-> <<>>, provider |-> None, providers_to_try |-> <<>>, i |-> 0,
     message_task |-> None, client |-> "open", sent |-> <<>>, outcomes |-> <<>>,
     delivered |-> 0]   \* delivered: bars sent from the current provider's stream
HandlerIdle == handler = NoHandler

\* routers/indicators.py after import: both dicts empty, no request served
NoAnswer == [request |-> None, hit |-> FALSE, response |-> None]
CacheIdle ==
    cache = [_indicator_cache |-> [k \in {} |-> None], _cache_timestamps |-> [k \in {} |-> 0],
             clock |-> 0, answer |-> NoAnswer]

SideIdle ==
    /\ HealthIdle /\ StreamIdle /\ LimiterIdle /\ TasksIdle /\ StockLogIdle /\ HandlerIdle
    /\ CacheIdle

PageIdle == pg = None

NoOutput == [fn |-> None, res |-> None]
FnIdle == fn_in = None /\ fn_out = NoOutput

Init == RouterInit /\ PageIdle /\ FnIdle /\ SideIdle

Next ==
    \/ \E r \in CryptoRequests : fetch_history_crypto(r)
    \/ crypto_wake
    \/ crypto_adapter_returns
    \/ crypto_adapter_raises
    \/ \E r \in StockRequests : fetch_stock_history(r) /\ UNCHANGED stock_starts
    \/ stock_adapter_returns /\ UNCHANGED stock_starts
    \/ stock_adapter_raises /\ UNCHANGED stock_starts
    \/ fetch_done /\ UNCHANGED stock_starts
    \/ reset_provider_health /\ UNCHANGED last_call
    \/ Tick /\ UNCHANGED stock_starts

Spec == Init /\ [][Next]_vars

(***************************************************************************)
(* The paginated history fetches on their own: a call of                   *)
(* fetch_ohlc_days_kraken or fetch_binance_ohlc_days with its arguments    *)
(* and the upstream's responses drawn from bounded sets.                   *)
(***************************************************************************)
\* rows of a page: a timestamp (seconds for Kraken) and whether the row parses
RowShapes == [ts : 1..MaxTs, ok : {"ok"}]

\* pages hold up to two rows, well-formed or (two samples) not
SeriesShapes ==
    {<<>>} \cup {<<a>> : a \in RowShapes} \cup {<<a, b>> : a \in RowShapes, b \in RowShapes}
    \cup {<<[ts |-> 1, ok |-> "ok"], [ts |-> 1, ok |-> "null"]>>,
          <<[ts |-> 1, ok |-> "short"], [ts |-> 1, ok |-> "ok"]>>}

\* the series of page k: close tells the page and the position a row came from
Tagged(shape, k) ==
    [i \in 1..Len(shape) |-> [ts |-> shape[i].ts, close |-> 10 * k + i, ok |-> shape[i].ok]]

PageShapes ==
    {[kind |-> "ok", series |-> sh, last |-> l] :
        sh \in SeriesShapes, l \in {"missing", "same", "advanced"}}
    \cup {[kind |-> "http_error", series |-> <<>>, last |-> "missing"]}

NoPage == [kind |-> None, series |-> <<>>, last |-> "missing"]

\* the upstream: page p served again and again, or pages p and q served in turn
PageResponses(p, q) ==
    LET tag(x, k) == [x EXCEPT !.series = Tagged(x.series, k)]
    IN IF q.kind = None THEN <<tag(p, 1)>> ELSE <<tag(p, 1), tag(q, 2)>>

PageCall(adapter, days, max_bars, responses) ==
    [adapter |-> adapter, symbol |-> ETH_USD, interval |-> 1, days |-> days,
     max_bars |-> max_bars, responses |-> responses, done |-> FALSE, out |-> <<>>,
     requests |-> 0]

InitPaginate ==
    /\ RouterInit
    /\ FnIdle
    /\ SideIdle
    /\ \E adapter \in {"kraken", "binance"}, days \in {1, 2}, p \in PageShapes,
          q \in PageShapes \cup {NoPage} :
         LET u == PageResponses(p, q)
         IN IF adapter = "kraken"
            THEN \E max_bars \in {0, 1, 2, KRAKEN_MAX_BARS} :
                   pg = PageCall(adapter, days, max_bars, u)
            ELSE \E max_bars \in {0, 1, 2, BINANCE_MAX_BARS} :
                   pg = PageCall(adapter, days, max_bars, Millis(u))

\* crypto_kraken_rest.fetch_ohlc_days_kraken runs to its return
kraken_history ==
    /\ pg.adapter = "kraken"
    /\ ~pg.done
    /\ LET l == fetch_ohlc_days_kraken(pg.symbol, pg.interval, pg.days, pg.max_bars,
                                       pg.responses)
       IN pg' = [pg EXCEPT !.done = TRUE, !.out = l.out, !.requests = l.requests]
    /\ UNCHANGED <<routerVars, fnVars, sideVars>>

\* crypto_binance.fetch_binance_ohlc_days runs to its return
binance_history ==
    /\ pg.adapter = "binance"
    /\ ~pg.done
    /\ LET l == fetch_binance_ohlc_days(pg.symbol, pg.interval, pg.days, pg.max_bars,
                                        pg.responses)
       IN pg' = [pg EXCEPT !.done = TRUE, !.out = l.out, !.requests = l.requests]
    /\ UNCHANGED <<routerVars, fnVars, sideVars>>

NextPaginate ==
    \/ kraken_history
    \/ binance_history

SpecPaginate == InitPaginate /\ [][NextPaginate]_vars

(***************************************************************************)
(* The interval mappers on their own.                                      *)
(***************************************************************************)
InitInterval ==
    RouterInit /\ PageIdle /\ SideIdle /\ fn_in \in 0..MaxInterval /\ fn_out = NoOutput

Mapped(fn, res) ==
    /\ fn_out = NoOutput
    /\ fn_out' = [fn |-> fn, res |-> res]
    /\ UNCHANGED <<routerVars, pg, fn_in, sideVars>>

map_kraken == Mapped("kraken", _interval_to_kraken(fn_in))
map_binance == Mapped("binance", _interval_to_binance(fn_in))
map_alpaca == Mapped("alpaca", _interval_to_alpaca_timeframe(fn_in))
map_finnhub == Mapped("finnhub", finnhub_resolution(fn_in))
map_polygon == Mapped("polygon", polygon_timespan(fn_in))

NextInterval ==
    \/ map_kraken
    \/ map_binance
    \/ map_alpaca
    \/ map_finnhub
    \/ map_polygon

SpecInterval == InitInterval /\ [][NextInterval]_vars

(***************************************************************************)
(* The crypto symbol normalizers on their own: each is applied to a symbol *)
(* as given, to its lowercase form and to its uppercase form.              *)
(***************************************************************************)
\* bases, separators and quotes the symbols are made of
SymbolBases == {Word.BTC, Word.XBT, Word.ETH, Word.SOL, Word.DOGE, Word.USDC, <<"X">>, <<>>}
SymbolSeparators == {<<>>, Word.SLASH, Word.DASH, Word.UNDERSCORE, <<" ", "/", " ">>}
SymbolQuotes == {Word.USD, Word.USDT, Word.USDC, Word.EUR, Word.BTC, <<>>}

\* s with its first letter in capitals and the rest in lowercase
Capitalized(s) == [i \in 1..Len(s) |-> IF i = 1 THEN UpperChar(s[i]) ELSE LowerChar(s[i])]

\* s with every second letter in lowercase
Alternating(s) == [i \in 1..Len(s) |-> IF i % 2 = 1 THEN UpperChar(s[i]) ELSE LowerChar(s[i])]

Symbols ==
    UNION {{b \o sep \o q, Lower(b \o sep \o q), Capitalized(b \o sep \o q),
            Alternating(b \o sep \o q)} :
              b \in SymbolBases, sep \in SymbolSeparators, q \in SymbolQuotes}

InitSymbol == RouterInit /\ PageIdle /\ SideIdle /\ fn_in \in Symbols /\ fn_out = NoOutput

Normalized(fn, asis, lower, upper) ==
    /\ fn_out = NoOutput
    /\ fn_out' = [fn |-> fn, res |-> [asis |-> asis, lower |-> lower, upper |-> upper]]
    /\ UNCHANGED <<routerVars, pg, fn_in, sideVars>>

normalize_binance ==
    Normalized("binance", _to_binance_symbol(fn_in), _to_binance_symbol(Lower(fn_in)),
               _to_binance_symbol(Upper(fn_in)))
normalize_kraken ==
    Normalized("kraken", _to_kraken_pair(fn_in), _to_kraken_pair(Lower(fn_in)),
               _to_kraken_pair(Upper(fn_in)))
normalize_coinbase ==
    Normalized("coinbase", _to_coinbase_symbol(fn_in), _to_coinbase_symbol(Lower(fn_in)),
               _to_coinbase_symbol(Upper(fn_in)))
normalize_yfinance ==
    Normalized("yfinance", _to_yfinance_crypto_symbol(fn_in),
               _to_yfinance_crypto_symbol(Lower(fn_in)),
               _to_yfinance_crypto_symbol(Upper(fn_in)))

NextSymbol ==
    \/ normalize_binance
    \/ normalize_kraken
    \/ normalize_coinbase
    \/ normalize_yfinance

SpecSymbol == InitSymbol /\ [][NextSymbol]_vars

(***************************************************************************)
(* The health API on its own: the module as earlier fetches left it, and a *)
(* caller that asks for the map, edits what it was given, and resets.      *)
(***************************************************************************)
InitHealth ==
    /\ RouterStart
    /\ LAST_REQUEST_TIME \in [CryptoProviders -> {0, MIN_REQUEST_INTERVAL}]
    /\ PageIdle /\ FnIdle /\ SideIdle

NextHealth ==
    \/ /\ get_provider_health
       /\ last_call' = [last_call EXCEPT !.fn = "get_provider_health"]
    \/ /\ \E k \in CryptoProviders \cup {UNKNOWN}, v \in BOOLEAN : caller_writes(k, v)
       /\ last_call' = [fn |-> "caller", after_edit |-> TRUE]
    \/ /\ \E k \in CryptoProviders \cup {UNKNOWN} : caller_deletes(k)
       /\ last_call' = [fn |-> "caller", after_edit |-> TRUE]
    \/ /\ reset_provider_health
       /\ last_call' = [last_call EXCEPT !.fn = "reset_provider_health"]

SpecHealth == InitHealth /\ [][NextHealth]_vars

(***************************************************************************)
(* Live stream selection: crypto_router.get_crypto_stream and the consumer *)
(* of the async generator it returns.                                      *)
(***************************************************************************)
MaxCandles == 2

\* get_crypto_stream with an explicit provider: the adapter's async generator object
\* ("generator"; calling an async generator function runs none of its body), or an
\* exception: the adapter's module cannot be imported, or the name is unknown
stream_of(provider, importable) ==
    IF provider \in {"binance", "kraken"} /\ provider \in importable
    THEN "generator" ELSE "raise"

\* get_crypto_stream, the auto loop: the first candidate whose call does not raise
RECURSIVE first_stream(_, _)
first_stream(cands, importable) ==
    IF cands = <<>> THEN None
    ELSE IF stream_of(Head(cands), importable) = "generator" THEN Head(cands)
    ELSE first_stream(Tail(cands), importable)

\* crypto_router.get_crypto_stream is called and returns or raises
get_crypto_stream(symbol, provider, importable) ==
    /\ stream.state = "none"
    /\ LET cands == HealthyOf(FirstN(PROVIDER_PRIORITY, 2), PROVIDER_HEALTH)
           source == IF provider = "auto" THEN first_stream(cands, importable)
                     ELSE IF stream_of(provider, importable) = "generator" THEN provider
                     ELSE None
       IN stream' = [provider |-> provider, symbol |-> symbol, source |-> source,
                     state |-> IF source = None THEN "raised" ELSE "created",
                     opened |-> <<>>, candles |-> 0]
    /\ UNCHANGED <<routerVars, pg, fnVars, healthVars, moreVars, rate_limiter_store, accepted, tasks>>

\* the consumer asks the generator for its first candle: the body of
\* binance_ohlc_stream or kraken_ohlc_stream runs up to websockets.connect, which
\* succeeds (ok) or raises to the consumer
stream_connects(ok) ==
    /\ stream.state = "created"
    /\ stream' = IF stream.source = "binance" /\ _to_binance_symbol(stream.symbol) = <<>>
                 THEN [stream EXCEPT !.state = "failed"]
                 ELSE [stream EXCEPT !.opened = Append(@, stream.source),
                                     !.state = IF ok THEN "open" ELSE "failed"]
    /\ UNCHANGED <<routerVars, pg, fnVars, healthVars, moreVars, rate_limiter_store, accepted, tasks>>

\* the open stream yields a candle to the consumer
stream_yields ==
    /\ stream.state = "open"
    /\ stream.candles < MaxCandles
    /\ stream' = [stream EXCEPT !.candles = @ + 1]
    /\ UNCHANGED <<routerVars, pg, fnVars, healthVars, moreVars, rate_limiter_store, accepted, tasks>>

\* the open connection is lost: the generator raises to the consumer
stream_breaks ==
    /\ stream.state = "open"
    /\ stream' = [stream EXCEPT !.state = "failed"]
    /\ UNCHANGED <<routerVars, pg, fnVars, healthVars, moreVars, rate_limiter_store, accepted, tasks>>

InitStream == RouterInit /\ PageIdle /\ FnIdle /\ SideIdle

NextStream ==
    \/ \E symbol \in {ETH_USD, Lower(ETH_USD), Word.BTC \o Word.DASH \o Word.USD, <<>>},
          provider \in {"auto", "binance", "kraken", UNKNOWN},
          importable \in SUBSET {"binance", "kraken"} :
            get_crypto_stream(symbol, provider, importable)
    \/ \E ok \in BOOLEAN : stream_connects(ok)
    \/ stream_yields
    \/ stream_breaks

SpecStream == InitStream /\ [][NextStream]_vars

(***************************************************************************)
(* The symbols endpoint's rate limiter (routers/symbols.py).  now is       *)
(* time.time() in whole seconds.                                           *)
(***************************************************************************)
RATE_LIMIT_REQUESTS == 10
RATE_LIMIT_WINDOW == 60

ClockStep == 30
MaxClock == 62

\* rate_limiter_store[client_ip] of the defaultdict(list)
Stored(store, client_ip) == IF client_ip \in DOMAIN store THEN store[client_ip] ELSE <<>>

\* [req_time for req_time in times if req_time > window_start]
recent(times, window_start) == SelectSeq(times, LAMBDA req_time : req_time > window_start)

\* check_rate_limit that turns a client away only above the limit
check_rate_limit_above(client_ip) ==
    LET kept == recent(Stored(rate_limiter_store, client_ip), now - RATE_LIMIT_WINDOW)
        ok == ~(Len(kept) > RATE_LIMIT_REQUESTS)
    IN /\ rate_limiter_store' =
              Put(rate_limiter_store, client_ip, IF ok THEN Append(kept, now) ELSE kept)
       /\ accepted' = IF ok THEN [accepted EXCEPT ![client_ip] = Append(@, now)] ELSE accepted
       /\ UNCHANGED <<routerVars, pg, fnVars, healthVars, moreVars, stream, tasks>>

\* symbols.check_rate_limit; accepted logs the calls that returned True
check_rate_limit(client_ip) ==
    LET kept == recent(Stored(rate_limiter_store, client_ip), now - RATE_LIMIT_WINDOW)
        ok == ~(Len(kept) >= RATE_LIMIT_REQUESTS)
    IN /\ rate_limiter_store' =
              Put(rate_limiter_store, client_ip, IF ok THEN Append(kept, now) ELSE kept)
       /\ accepted' = IF ok THEN [accepted EXCEPT ![client_ip] = Append(@, now)] ELSE accepted
       /\ UNCHANGED <<routerVars, pg, fnVars, healthVars, moreVars, stream, tasks>>

\* time passes between two requests to the endpoint
clock_advances ==
    /\ now + ClockStep <= MaxClock
    /\ now' = now + ClockStep
    /\ UNCHANGED <<LAST_REQUEST_TIME, PROVIDER_HEALTH, STOCK_PROVIDER_HEALTH, req, pc,
                   healthy_providers, idx, wake, attempts, ret, adapter_starts, fetches,
                   pg, fnVars, sideVars>>

InitLimiter == RouterInit /\ PageIdle /\ FnIdle /\ SideIdle

NextLimiter ==
    \/ \E client_ip \in ClientIPs : check_rate_limit(client_ip)
    \/ clock_advances

SpecLimiter == InitLimiter /\ [][NextLimiter]_vars

(***************************************************************************)
(* The single-request adapters on their own: the API key of the process    *)
(* environment ("" when unset) and the upstream payload are drawn from     *)
(* bounded sets; a row may be malformed.                                   *)
(***************************************************************************)
MaxRows == 3

AdapterPayloads ==
    UNION {{[i \in 1..n |-> [ts |-> f[i].ts, close |-> i, ok |-> f[i].ok]] :
              f \in [1..n -> [ts : 1..MaxTs, ok : {"ok", "short", "value", "null"}]]} :
           n \in 0..MaxRows}

InitAdapter ==
    /\ RouterInit /\ PageIdle /\ SideIdle
    /\ fn_in \in [api_key : {"", "your_polygon_key_here", "k"}, data : AdapterPayloads]
    /\ fn_out = NoOutput

polygon_called ==
    Mapped("polygon", Keyed({"", "your_polygon_key_here"}, fn_in.api_key,
                            fetch_polygon_bars(fn_in.data)))

finnhub_called ==
    Mapped("finnhub", Keyed({"", "your_finnhub_key_here"}, fn_in.api_key,
                            fetch_finnhub_bars(fn_in.data)))

alpaca_called == Mapped("alpaca", Keyed({""}, fn_in.api_key, fetch_alpaca_bars(fn_in.data)))

alpha_vantage_called ==
    Mapped("alpha_vantage", Keyed({""}, fn_in.api_key,
                                  _fetch_alpha_vantage_bars(1, 1, fn_in.data)))

\* crypto_binance.fetch_binance_ohlc needs no key
binance_called ==
    Mapped("binance",
           [kind |-> "list",
            out |-> fetch_binance_ohlc(ETH_USD, 1, BINANCE_PAGE,
                                       [kind |-> "ok", series |-> fn_in.data, last |-> "missing"]),
            requests |-> 1])

NextAdapter ==
    \/ polygon_called
    \/ finnhub_called
    \/ alpaca_called
    \/ alpha_vantage_called
    \/ binance_called

SpecAdapter == InitAdapter /\ [][NextAdapter]_vars

(***************************************************************************)
(* The synthetic generator on its own: two generations for the same        *)
(* arguments at two wall-clock times of one process.                       *)
(***************************************************************************)
MockDays == 3

\* the wall-clock times drawn: 08:00 and 10:00 of a Thursday and the days after it
MockTimes == {(d * 86400) + (h * 3600) : d \in 0..MockDays, h \in {8, 10}}

InitMock ==
    /\ RouterInit /\ PageIdle /\ SideIdle
    /\ fn_in \in [symbol : {Word.AAPL, Word.BRK_B}, interval : {1, 60}, count : 0..2,
                  first : MockTimes, second : MockTimes]
    /\ fn_in.first <= fn_in.second
    /\ fn_out = NoOutput

\* mock_stock_data.generate_realistic_ohlcv is called at the first time and again at
\* the second
generated_twice ==
    Mapped("generate_realistic_ohlcv",
           <<generate_realistic_ohlcv(fn_in.symbol, fn_in.interval, fn_in.count, fn_in.first),
             generate_realistic_ohlcv(fn_in.symbol, fn_in.interval, fn_in.count, fn_in.second)>>)

NextMock == generated_twice

SpecMock == InitMock /\ [][NextMock]_vars

(***************************************************************************)
(* Concurrent crypto fetches: each caller runs _fetch_from_provider, which *)
(* is split at its one await, asyncio.sleep.  A caller's record keeps when *)
(* it entered, the LAST_REQUEST_TIME it read and when its adapter started. *)
(***************************************************************************)
\* _fetch_from_provider, line 68 and the dispatch, for caller i
task_starts(i, t) ==
    /\ LAST_REQUEST_TIME' = [LAST_REQUEST_TIME EXCEPT ![t.prov] = now]
    /\ tasks' = [tasks EXCEPT ![i] = [t EXCEPT !.pc = "call", !.start = now]]

\* caller i enters _fetch_from_provider for provider p: lines 60-68 up to the await
task_enters(i, p) ==
    /\ tasks[i].pc \in {"idle", "done"}
    /\ now <= MaxTime
    /\ LET last_request == LAST_REQUEST_TIME[p]
           t == [pc |-> "sleep", prov |-> p, entered |-> now, seen |-> last_request,
                 wake |-> now + wait_time(now, last_request), start |-> 0]
       IN IF wait_time(now, last_request) > 0
          THEN /\ tasks' = [tasks EXCEPT ![i] = t]
               /\ UNCHANGED LAST_REQUEST_TIME
          ELSE task_starts(i, t)
    /\ UNCHANGED <<now, PROVIDER_HEALTH, STOCK_PROVIDER_HEALTH, req, pc, healthy_providers, idx,
                   wake, attempts, ret, adapter_starts, fetches, pg, fnVars, healthVars, moreVars,
                   stream, rate_limiter_store, accepted>>

\* the asyncio.sleep of caller i returns
task_wakes(i) ==
    /\ tasks[i].pc = "sleep"
    /\ now >= tasks[i].wake
    /\ task_starts(i, tasks[i])
    /\ UNCHANGED <<now, PROVIDER_HEALTH, STOCK_PROVIDER_HEALTH, req, pc, healthy_providers, idx,
                   wake, attempts, ret, adapter_starts, fetches, pg, fnVars, healthVars, moreVars,
                   stream, rate_limiter_store, accepted>>

\* the adapter call of caller i returns or raises
task_returns(i) ==
    /\ tasks[i].pc = "call"
    /\ tasks' = [tasks EXCEPT ![i].pc = "done"]
    /\ UNCHANGED <<routerVars, pg, fnVars, healthVars, moreVars, stream, rate_limiter_store, accepted>>

\* a second of wall-clock time passes
second_passes ==
    /\ now < MaxTime \/ \E i \in Callers : tasks[i].pc = "sleep" /\ now < tasks[i].wake
    /\ now' = now + 1
    /\ UNCHANGED <<LAST_REQUEST_TIME, PROVIDER_HEALTH, STOCK_PROVIDER_HEALTH, req, pc,
                   healthy_providers, idx, wake, attempts, ret, adapter_starts, fetches,
                   pg, fnVars, sideVars>>

InitConcurrent == RouterInit /\ PageIdle /\ FnIdle /\ SideIdle

NextConcurrent ==
    \/ \E i \in Callers, p \in {"binance", "kraken"} : task_enters(i, p)
    \/ \E i \in Callers : task_wakes(i)
    \/ \E i \in Callers : task_returns(i)
    \/ second_passes

SpecConcurrent == InitConcurrent /\ [][NextConcurrent]_vars

(***************************************************************************)
(* fetch_binance_ohlc_days on its own against the upstream that honours    *)
(* `limit`, with the arguments and the length of the upstream's history    *)
(* drawn from bounded sets.                                                *)
(***************************************************************************)
MaxDays == 2

\* histories: none, shorter than a page, and longer than any request needs
Histories == {0, BINANCE_PAGE \div 2, MaxDays * MINUTES_PER_DAY}

InitRecent ==
    /\ RouterInit /\ PageIdle /\ SideIdle
    /\ fn_out = NoOutput
    /\ fn_in \in [interval : {1, 5, 15, 60}, days : 1..MaxDays,
                  max_bars : {1, BINANCE_PAGE \div 2, BINANCE_PAGE, BINANCE_PAGE + 1,
                              MINUTES_PER_DAY, BINANCE_MAX_BARS},
                  history : Histories]

binance_days_called ==
    Mapped("binance_days",
           binance_days_recent(fn_in.interval, fn_in.days, fn_in.max_bars, fn_in.history))

NextRecent == binance_days_called

SpecRecent == InitRecent /\ [][NextRecent]_vars

(***************************************************************************)
(* The stock router on its own, with the starts of its adapter calls       *)
(* logged.                                                                 *)
(***************************************************************************)
\* the log after stock provider p's adapter starts now (min_gap -1: no provider was
\* called twice yet)
LogStockStart(p) ==
    LET gap == now - stock_starts.last[p]
    IN [last |-> [stock_starts.last EXCEPT ![p] = now],
        min_gap |-> IF stock_starts.last[p] = 0 THEN stock_starts.min_gap
                    ELSE IF stock_starts.min_gap = -1 THEN gap
                    ELSE Min(gap, stock_starts.min_gap)]

\* the step invoked an adapter (stocks_router._fetch_from_stock_provider dispatched)
StockLog ==
    stock_starts' =
        IF pc' = "call" /\ Len(attempts') > Len(attempts)
        THEN LogStockStart(healthy_providers'[idx'])
        ELSE stock_starts

InitStock == Init

NextStock ==
    \/ \E r \in StockRequests : fetch_stock_history(r) /\ StockLog
    \/ stock_adapter_returns /\ StockLog
    \/ stock_adapter_raises /\ StockLog
    \/ fetch_done /\ UNCHANGED stock_starts
    \/ Tick /\ UNCHANGED stock_starts

SpecStock == InitStock /\ [][NextStock]_vars

(***************************************************************************)
(* The /ws/crypto/ohlc handler (main.ws_crypto) on one connection.  The    *)
(* handler runs with its message task and the client; a send to a client   *)
(* that has gone raises.                                                   *)
(***************************************************************************)
WsProviders == {"auto", "binance", "kraken", UNKNOWN}
WsSymbols == {ETH_USD, <<"X">>, <<>>}

Sent(h, type, prov) == [h EXCEPT !.sent = Append(@, [type |-> type, provider |-> prov])]

\* the for loop moves to the next provider, or falls out of the loop
Continue(h) ==
    IF h.i < Len(h.providers_to_try) THEN [h EXCEPT !.i = @ + 1, !.pc = "loop"]
    ELSE [h EXCEPT !.pc = "after"]

Outcome(h, o) == [h EXCEPT !.outcomes = Append(@, o)]

\* `return` inside the loop: nothing more runs in the handler
Return(h) == [h EXCEPT !.pc = "returned"]

HandlerStep(h) ==
    /\ handler' = h
    /\ UNCHANGED <<routerVars, pg, fnVars, healthVars, otherVars, stock_starts, cache>>

\* main.ws_crypto up to the loop: symbol check, message task started
ws_crypto(symbol, provider) ==
    /\ handler.pc = "idle"
    /\ LET h == [handler EXCEPT !.symbol = symbol, !.provider = provider]
       IN IF symbol = <<>> \/ Len(symbol) < 3
          THEN HandlerStep(Return(IF handler.client = "open" THEN Sent(h, "error", None)
                                  ELSE h))
          ELSE HandlerStep([h EXCEPT !.message_task = "running",
                                     !.providers_to_try =
                                         IF provider = "auto" THEN <<"binance", "kraken">>
                                         ELSE <<provider>>,
                                     !.i = 1, !.pc = "loop"])

\* one pass of the loop up to `async for`: status message, stream chosen (the generator
\* is created, nothing connects yet), second status message
ws_tries_provider ==
    /\ handler.pc = "loop"
    /\ LET current_provider == handler.providers_to_try[handler.i]
       IN IF handler.client # "open" THEN HandlerStep(Return(handler))
          ELSE IF current_provider \notin {"binance", "kraken"}
          THEN HandlerStep(Continue(Outcome(Sent(handler, "status", current_provider),
                                            "skipped")))
          ELSE HandlerStep([Sent(Sent(handler, "status", current_provider),
                                 "status", current_provider)
                               EXCEPT !.pc = "stream", !.delivered = 0])

\* the stream yields a bar and the handler sends it
ws_stream_yields ==
    /\ handler.pc = "stream"
    /\ handler.delivered < MaxCandles
    /\ IF handler.client # "open" THEN HandlerStep(Return(handler))
       ELSE HandlerStep([Sent(handler, "ohlc", handler.providers_to_try[handler.i])
                            EXCEPT !.delivered = @ + 1])

\* the stream raises (the connection fails or closes with an error): provider_error
\* is sent and the loop continues
ws_stream_raises ==
    /\ handler.pc = "stream"
    /\ LET h == Outcome(handler, "failed")
       IN IF handler.client # "open" THEN HandlerStep(Return(h))
          ELSE HandlerStep(Continue(Sent(h, "provider_error",
                                         handler.providers_to_try[handler.i])))

\* the stream ends normally (the upstream closed the connection): `break`
ws_stream_ends ==
    /\ handler.pc = "stream"
    /\ HandlerStep([Outcome(handler, "ended") EXCEPT !.pc = "after"])

\* the code after the loop: the terminal error message, then `finally` cancels the
\* message task unless it is done
ws_after_loop ==
    /\ handler.pc = "after"
    /\ LET h == IF handler.client = "open" THEN Sent(handler, "error", None) ELSE handler
       IN HandlerStep(Return([h EXCEPT !.message_task =
                                  IF @ = "running" THEN "cancelled" ELSE @]))

\* the client closes the connection
client_disconnects ==
    /\ handler.pc \notin {"idle", "returned"}
    /\ handler.client = "open"
    /\ HandlerStep([handler EXCEPT !.client = "closed"])

\* handle_client_messages: receive_text raises WebSocketDisconnect and the task ends
message_task_ends ==
    /\ handler.message_task = "running"
    /\ handler.client = "closed"
    /\ HandlerStep([handler EXCEPT !.message_task = "done"])

InitWs == Init

NextWs ==
    \/ \E symbol \in WsSymbols, provider \in WsProviders : ws_crypto(symbol, provider)
    \/ ws_tries_provider
    \/ ws_stream_yields
    \/ ws_stream_raises
    \/ ws_stream_ends
    \/ ws_after_loop
    \/ client_disconnects
    \/ message_task_ends

SpecWs == InitWs /\ [][NextWs]_vars

(***************************************************************************)
(* The Alpha Vantage REST endpoints (routers/alpha_vantage.py): each body  *)
(* runs inside `try`, followed by `except ValueError` and                  *)
(* `except Exception`.  An outcome is a return or a raised exception; the  *)
(* framework answers a raised HTTPException with its status_code.          *)
(***************************************************************************)
\* the exception classes involved and their base classes
Bases ==
    {<<"HTTPException", "Exception">>, <<"ValueError", "Exception">>,
     <<"KeyError", "Exception">>}

isinstance(e, cls) == e.cls = cls \/ <<e.cls, cls>> \in Bases

HTTPException(status_code) == [cls |-> "HTTPException", status_code |-> status_code]
Error(cls) == [cls |-> cls, status_code |-> 0]

Returns(data) == [kind |-> "return", data |-> data, exc |-> Error(None)]
Raise(exc) == [kind |-> "raise", data |-> None, exc |-> exc]

\* the two handlers of every endpoint, applied to the outcome of the try body
except_handlers(body) ==
    IF body.kind # "raise" THEN body
    ELSE IF isinstance(body.exc, "ValueError") THEN Raise(HTTPException(400))
    ELSE IF isinstance(body.exc, "Exception") THEN Raise(HTTPException(500))
    ELSE body

\* the status of the response for an endpoint's outcome
status_of(outcome) ==
    IF outcome.kind = "return" THEN 200
    ELSE IF outcome.exc.cls = "HTTPException" THEN outcome.exc.status_code
    ELSE 500

\* what a connector call gives: data with rows, {'data': []}, {} or an exception
\* (ValueError for a missing key, an API error or the rate limit)
ConnectorResults ==
    {Returns("rows"), Returns("no_rows"), Returns("empty"), Raise(Error("ValueError")),
     Raise(Error("KeyError"))}

\* alpha_vantage.get_quote
get_quote(symbol, r) ==
    except_handlers(
        IF r.kind = "raise" THEN r
        ELSE IF r.data = "empty" THEN Raise(HTTPException(404))
        ELSE r)

valid_intervals == {"1min", "5min", "15min", "30min", "60min"}

\* alpha_vantage.get_intraday
get_intraday(symbol, interval, r) ==
    except_handlers(
        IF interval \notin valid_intervals THEN Raise(HTTPException(400))
        ELSE IF r.kind = "raise" THEN r
        ELSE IF r.data \in {"empty", "no_rows"} THEN Raise(HTTPException(404))
        ELSE r)

\* alpha_vantage.get_daily
get_daily(symbol, outputsize, r) ==
    except_handlers(
        IF outputsize \notin {"compact", "full"} THEN Raise(HTTPException(400))
        ELSE IF r.kind = "raise" THEN r
        ELSE IF r.data \in {"empty", "no_rows"} THEN Raise(HTTPException(404))
        ELSE r)

\* the requests drawn: endpoint, its query parameter, what the connector gives
AlphaRequests ==
    [endpoint : {"quote"}, param : {None}, symbol : {Word.AAPL, Lower(Word.AAPL)},
     result : ConnectorResults]
    \cup [endpoint : {"intraday"}, param : valid_intervals \cup {"2min"},
          symbol : {Word.AAPL, Lower(Word.AAPL)}, result : ConnectorResults]
    \cup [endpoint : {"daily"}, param : {"compact", "full", "max"},
          symbol : {Word.AAPL, Lower(Word.AAPL)}, result : ConnectorResults]

InitAlpha ==
    RouterInit /\ PageIdle /\ SideIdle /\ fn_out = NoOutput /\ fn_in \in AlphaRequests

quote_requested ==
    /\ fn_in.endpoint = "quote"
    /\ Mapped("quote", status_of(get_quote(Upper(fn_in.symbol), fn_in.result)))

intraday_requested ==
    /\ fn_in.endpoint = "intraday"
    /\ Mapped("intraday",
              status_of(get_intraday(Upper(fn_in.symbol), fn_in.param, fn_in.result)))

daily_requested ==
    /\ fn_in.endpoint = "daily"
    /\ Mapped("daily", status_of(get_daily(Upper(fn_in.symbol), fn_in.param, fn_in.result)))

NextAlpha ==
    \/ quote_requested
    \/ intraday_requested
    \/ daily_requested

SpecAlpha == InitAlpha /\ [][NextAlpha]_vars

(***************************************************************************)
(* The indicator cache of /api/indicators/calculate                        *)
(* (routers/indicators.py).  A response is represented by the request      *)
(* parameters it was computed from.                                        *)
(***************************************************************************)
MaxCacheClock == 2

IndicatorRequests ==
    [symbol : {"BTC/USD"}, market : {"crypto"}, interval : {1}, days : {1, 30},
     limit : {100, 300}, provider : {"auto", "binance"}, include_patterns : BOOLEAN,
     cache_ttl : 0..MaxCacheClock]

\* indicators._get_cache_key: the four fields that make up the key
_get_cache_key(symbol, market, interval, days) == <<symbol, market, interval, days>>

\* indicators._is_cache_valid
_is_cache_valid(cache_key, ttl_seconds) ==
    IF cache_key \notin DOMAIN cache._cache_timestamps THEN FALSE
    ELSE cache.clock - cache._cache_timestamps[cache_key] < ttl_seconds

\* the response computed for a request: the data fetched (symbol, market, interval,
\* days, provider), cut to limit, with or without the patterns
IndicatorResponse(request) ==
    [symbol |-> request.symbol, market |-> request.market, interval |-> request.interval,
     days |-> request.days, limit |-> request.limit, provider |-> request.provider,
     include_patterns |-> request.include_patterns, error |-> FALSE]

ErrorResponse(request) == [IndicatorResponse(request) EXCEPT !.error = TRUE]

\* indicators.calculate_indicators; computed: the data was fetched and the indicators
\* were calculated without error
calculate_indicators(request, computed) ==
    /\ LET cache_key == _get_cache_key(request.symbol, request.market, request.interval,
                                       request.days)
           response == IndicatorResponse(request)
           answer(hit, r) == [request |-> request, hit |-> hit, response |-> r]
       IN IF _is_cache_valid(cache_key, request.cache_ttl)
             /\ cache_key \in DOMAIN cache._indicator_cache
          THEN cache' = [cache EXCEPT !.answer = answer(TRUE, cache._indicator_cache[cache_key])]
          ELSE IF ~computed
          THEN cache' = [cache EXCEPT !.answer = answer(FALSE, ErrorResponse(request))]
          ELSE IF request.cache_ttl > 0
          THEN cache' = [cache EXCEPT
                            !._indicator_cache = Put(@, cache_key, response),
                            !._cache_timestamps = Put(@, cache_key, cache.clock),
                            !.answer = answer(FALSE, response)]
          ELSE cache' = [cache EXCEPT !.answer = answer(FALSE, response)]
    /\ UNCHANGED <<routerVars, pg, fnVars, healthVars, otherVars, stock_starts, handler>>

\* datetime.now() moves on by a second
cache_clock_advances ==
    /\ cache.clock < MaxCacheClock
    /\ cache' = [cache EXCEPT !.clock = @ + 1]
    /\ UNCHANGED <<routerVars, pg, fnVars, healthVars, otherVars, stock_starts, handler>>

InitCache == Init

NextCache ==
    \/ \E request \in IndicatorRequests, computed \in BOOLEAN :
         calculate_indicators(request, computed)
    \/ cache_clock_advances

SpecCache == InitCache /\ [][NextCache]_vars


(***************************************************************************)
(* Properties of the routers, checked under Spec.                          *)
(***************************************************************************)
StrictlyAscending(bars) == \A i \in 1..(Len(bars) - 1) : bars[i].ts < bars[i + 1].ts

PriorityOf(market) ==
    IF market = "crypto" THEN PROVIDER_PRIORITY ELSE STOCK_PROVIDER_PRIORITY

\* C1: in auto mode both routers invoke the providers in the static priority order,
\* each at most once; every provider before the last one invoked raised or returned
\* nothing; no exception reaches the caller; a fetch that ends with real bars returns
\* exactly the list of the last provider invoked, which is the first that returned a
\* non-empty list; a fetch that ends without real bars has tried every provider
C1_AutoPriorityOrder ==
    req.provider = "auto" =>
        LET prio == PriorityOf(req.market)
            n == Len(attempts)
        IN /\ n <= Len(prio)
           /\ \A i \in 1..n : attempts[i].prov = prio[i]
           /\ \A i \in 1..(n - 1) : attempts[i].out \in {"raised", "empty"}
           /\ ret.kind # "raise"
           /\ pc = "done" /\ ret.bars # <<>> /\ ~ret.synthetic =>
                  /\ n >= 1
                  /\ attempts[n].out = "list"
                  /\ ret.bars = attempts[n].bars
           /\ pc = "done" /\ (ret.bars = <<>> \/ ret.synthetic) /\ healthy_providers # <<>> =>
                  /\ n = Len(prio)
                  /\ attempts[n].out \in {"raised", "empty"}

\* a crypto auto fetch whose first provider raised and whose second returned nothing
\* returns the third provider's bars
C1_Witness ==
    /\ pc = "done"
    /\ req.market = "crypto"
    /\ req.provider = "auto"
    /\ Len(attempts) = 3
    /\ attempts[1].out = "raised"
    /\ attempts[2].out = "empty"
    /\ ret.bars # <<>>

\* C2: an auto-mode fetch_history_crypto never returns an empty list
C2_CryptoAutoNeverEmpty ==
    pc = "done" /\ req.market = "crypto" /\ req.provider = "auto" =>
        ret.kind = "list" /\ ret.bars # <<>>

\* C3: an auto-mode fetch_stock_history of a valid symbol with interval >= 1 and
\* days >= 1 never returns an empty list
C3_StockAutoNeverEmpty ==
    /\ pc = "done"
    /\ req.market = "stock"
    /\ req.provider = "auto"
    /\ _is_valid_stock_symbol(req.symbol)
    /\ req.interval >= 1
    /\ req.days >= 1
    => ret.kind = "list" /\ ret.bars # <<>>

KnownProviders(market) == IF market = "crypto" THEN CryptoProviders ELSE StockProviders

Rejected(r) == r.market = "stock" /\ ~_is_valid_stock_symbol(r.symbol)

\* what an explicit fetch that invoked its provider once hands to the caller
ExplicitOutcome ==
    /\ Len(attempts) = 1
    /\ attempts[1].prov = req.provider
    /\ attempts[1].out = "raised" => ret.kind = "raise"
    /\ attempts[1].out = "empty" => ret = Returned(<<>>)
    /\ attempts[1].out = "list" => ret = Returned(attempts[1].bars)
    /\ ~ret.synthetic

C5_StrictlyAscending ==
    pc = "done" /\ ret.kind = "list" => StrictlyAscending(ret.bars)

\* C7: between two adapter starts of the same crypto provider at least
\* MIN_REQUEST_INTERVAL seconds pass, and a step changes LAST_REQUEST_TIME only of
\* the provider whose adapter it starts, to the time of the start
C7_SpacedPerProvider ==
    /\ [](adapter_starts.min_gap = -1 \/ adapter_starts.min_gap >= MIN_REQUEST_INTERVAL)
    /\ [][\A q \in CryptoProviders :
            LAST_REQUEST_TIME'[q] # LAST_REQUEST_TIME[q] =>
                /\ pc' = "call"
                /\ healthy_providers'[idx'] = q
                /\ LAST_REQUEST_TIME'[q] = now]_vars

\* a provider's second call slept and its adapter then started exactly
\* MIN_REQUEST_INTERVAL after the first
C7_Witness ==
    /\ pc = "call"
    /\ wake = now
    /\ adapter_starts.min_gap = MIN_REQUEST_INTERVAL
    /\ \E q \in CryptoProviders : LAST_REQUEST_TIME[q] = 0

(***************************************************************************)
(* Properties of the paginated fetches, checked under SpecPaginate.        *)
(***************************************************************************)
\* the bars one response yields to the fetch pg
PageBars(r) ==
    IF pg.adapter = "kraken"
    THEN IF r.kind = "ok" THEN kraken_rows(<<>>, r.series, 1)[1] ELSE <<>>
    ELSE fetch_binance_ohlc(pg.symbol, pg.interval, BINANCE_PAGE, r)

\* the bars the requests k .. n-1 of the fetch pg yielded, in the order fetched
RECURSIVE FetchedBars(_, _)
FetchedBars(k, n) ==
    IF k >= n THEN <<>>
    ELSE PageBars(Answer(pg.responses, k)) \o FetchedBars(k + 1, n)

Stamps(bars) == {bars[i].ts : i \in 1..Len(bars)}

\* C6: when the bars of all fetched pages hold no more than max_bars distinct
\* timestamps, the result of a paginated fetch holds exactly one bar for each of
\* them, and that bar is the last one fetched with that timestamp
C6_LastWriteWins ==
    pg.done =>
        LET fetched == FetchedBars(0, pg.requests)
        IN Cardinality(Stamps(fetched)) <= pg.max_bars =>
             /\ Len(pg.out) = Cardinality(Stamps(fetched))
             /\ \A t \in Stamps(fetched) :
                  \E i \in 1..Len(pg.out), j \in 1..Len(fetched) :
                     /\ pg.out[i].ts = t
                     /\ pg.out[i] = fetched[j]
                     /\ \A k \in (j + 1)..Len(fetched) : fetched[k].ts # t

\* a fetch of two pages or more that share a timestamp returned two bars or more
C6_Witness ==
    /\ pg.done
    /\ pg.requests >= 2
    /\ Len(pg.out) >= 2
    /\ LET fetched == FetchedBars(0, pg.requests)
       IN /\ Cardinality(Stamps(fetched)) <= pg.max_bars
          /\ \E i \in 1..Len(fetched), j \in 1..Len(fetched) :
               /\ i < j
               /\ fetched[i].ts = fetched[j].ts
               /\ fetched[i].close \div 10 # fetched[j].close \div 10

(***************************************************************************)
(* Properties of the interval mappers, checked under SpecInterval.         *)
(***************************************************************************)
Largest(S) == CHOOSE x \in S : \A y \in S : y <= x

\* C8: for a request between 1 and the provider's largest resolution, the Kraken and
\* Binance mappers return the smallest resolution of the provider that is >= the
\* request
C8_CryptoMappersCeiling ==
    /\ fn_out.fn = "kraken" /\ fn_in \in 1..Largest(KrakenResolutions) =>
           fn_out.res = Ceiling(KrakenResolutions, fn_in)
    /\ fn_out.fn = "binance" /\ fn_in \in 1..Largest(BinanceResolutions) =>
           BinanceMinutes[fn_out.res] = Ceiling(BinanceResolutions, fn_in)

\* Kraken maps a request of 61 minutes to its 240-minute resolution
C8_Witness == fn_out.fn = "kraken" /\ fn_in = 61 /\ fn_out.res = 240

\* C9: for a request between 1 and 60 minutes the Alpaca, Finnhub and Polygon
\* mappings return the smallest of 1, 5, 15, 30, 60 that is >= the request
C9_StockMappersCeiling ==
    fn_in \in 1..60 =>
        /\ fn_out.fn = "alpaca" =>
               AlpacaMinutes[fn_out.res] = Ceiling(StockMinuteResolutions, fn_in)
        /\ fn_out.fn = "finnhub" =>
               FinnhubMinutes[fn_out.res] = Ceiling(StockMinuteResolutions, fn_in)
        /\ fn_out.fn = "polygon" =>
               PolygonMinutes(fn_out.res) = Ceiling(StockMinuteResolutions, fn_in)

(***************************************************************************)
(* Properties of the symbol normalizers, checked under SpecSymbol.         *)
(***************************************************************************)
\* C10: every normalizer gives the lowercase form of a symbol the ticker it gives
\* the uppercase form, and _to_binance_symbol("BTC/USD") is "BTCUSDT"
C10_NormalizersIgnoreCase ==
    /\ fn_out.fn # None => fn_out.res.lower = fn_out.res.upper
    /\ fn_out.fn = "binance" /\ fn_in = Word.BTC \o Word.SLASH \o Word.USD =>
           fn_out.res.asis = Word.BTC \o Word.USDT

\* Binance gives "btcusd", which no table holds in lowercase, the ticker of "BTCUSD"
C10_Witness ==
    /\ fn_out.fn = "binance"
    /\ fn_in = Lower(Word.BTC \o Word.USD)
    /\ fn_out.res.lower = Word.BTC \o Word.USDT
    /\ fn_out.res.upper = Word.BTC \o Word.USDT

(***************************************************************************)
(* Properties of provider health.                                          *)
(***************************************************************************)
\* C11: no fetch outcome and no reset ever demotes a provider: every entry of
\* PROVIDER_HEALTH and of STOCK_PROVIDER_HEALTH stays healthy, so the candidate list
\* of an auto-mode fetch is the whole priority list (checked under Spec)
C11_NeverDemoted ==
    /\ PROVIDER_HEALTH = AllHealthy(PROVIDER_PRIORITY)
    /\ STOCK_PROVIDER_HEALTH = AllHealthy(STOCK_PROVIDER_PRIORITY)
    /\ HealthyOf(PROVIDER_PRIORITY, PROVIDER_HEALTH) = PROVIDER_PRIORITY
    /\ HealthyOf(STOCK_PROVIDER_PRIORITY, STOCK_PROVIDER_HEALTH) = STOCK_PROVIDER_PRIORITY
    /\ pc # "idle" /\ req.provider = "auto" /\ ~Rejected(req) =>
           healthy_providers = PriorityOf(req.market)

\* an auto fetch whose first provider raised and whose second returned bars: both
\* are still marked healthy
C11_Witness ==
    /\ pc = "done"
    /\ req.provider = "auto"
    /\ Len(attempts) = 2
    /\ attempts[1].out = "raised"
    /\ attempts[2].out = "list"
    /\ LET health == IF req.market = "crypto" THEN PROVIDER_HEALTH
                     ELSE STOCK_PROVIDER_HEALTH
       IN health[attempts[1].prov] /\ health[attempts[2].prov]

\* C12: get_provider_health returns the map by value: what the caller does to the
\* map it was given changes neither PROVIDER_HEALTH nor the candidate list a later
\* auto-mode fetch computes, and a later get_provider_health still returns the
\* module's map (checked under SpecHealth)
C12_ReturnedByValue ==
    /\ [](last_call.fn = "get_provider_health" =>
            /\ snapshot.map = PROVIDER_HEALTH
            /\ last_call.after_edit => snapshot.map = AllHealthy(PROVIDER_PRIORITY))
    /\ [][last_call'.fn = "caller" =>
            /\ PROVIDER_HEALTH' = PROVIDER_HEALTH
            /\ HealthyOf(PROVIDER_PRIORITY, PROVIDER_HEALTH') =
                   HealthyOf(PROVIDER_PRIORITY, PROVIDER_HEALTH)]_vars

\* the caller marked binance unhealthy in the map it was given and dropped kraken
\* from it; the module's map still has both healthy
C12_Witness ==
    /\ last_call.fn = "caller"
    /\ "binance" \in DOMAIN snapshot.map
    /\ ~snapshot.map["binance"]
    /\ "kraken" \notin DOMAIN snapshot.map
    /\ PROVIDER_HEALTH["binance"]
    /\ PROVIDER_HEALTH["kraken"]

C14_StreamFallsBack ==
    stream.provider = "auto" /\ stream.state = "failed" /\ "binance" \in Range(stream.opened) =>
        "kraken" \in Range(stream.opened)

(***************************************************************************)
(* Properties of the rate limiter, checked under SpecLimiter.              *)
(***************************************************************************)
\* the number of requests of a client accepted at a time t with lo < t <= hi
AcceptedIn(client_ip, lo, hi) ==
    Cardinality({j \in 1..Len(accepted[client_ip]) :
                    accepted[client_ip][j] > lo /\ accepted[client_ip][j] <= hi})

\* C15: check_rate_limit accepts at most RATE_LIMIT_REQUESTS requests of a client in
\* any half-open window of RATE_LIMIT_WINDOW seconds (it is enough to look at the
\* windows that end, or begin, at an accepted request); the list kept for a client
\* never exceeds RATE_LIMIT_REQUESTS and holds accepted requests only; a rejected
\* request is not recorded; a call for one client leaves the other clients' lists alone
C15_RateLimited ==
    /\ [](\A c \in ClientIPs :
            /\ Len(Stored(rate_limiter_store, c)) <= RATE_LIMIT_REQUESTS
            /\ Stored(rate_limiter_store, c) =
                   LastN(accepted[c], Len(Stored(rate_limiter_store, c)))
            /\ \A i \in 1..Len(accepted[c]) :
                 /\ AcceptedIn(c, accepted[c][i] - RATE_LIMIT_WINDOW, accepted[c][i])
                        <= RATE_LIMIT_REQUESTS
                 /\ AcceptedIn(c, accepted[c][i] - 1, accepted[c][i] + RATE_LIMIT_WINDOW - 1)
                        <= RATE_LIMIT_REQUESTS)
    /\ [][\A c \in ClientIPs :
            /\ accepted'[c] = accepted[c] =>
                   Len(Stored(rate_limiter_store', c)) <= Len(Stored(rate_limiter_store, c))
            /\ check_rate_limit(c) =>
                   \A o \in ClientIPs \ {c} :
                       Stored(rate_limiter_store', o) = Stored(rate_limiter_store, o)]_vars

\* a client with RATE_LIMIT_REQUESTS requests accepted within the window now open,
\* the last of them earlier than now, and another client with a request accepted
C15_Witness ==
    /\ Len(accepted["10.0.0.1"]) = RATE_LIMIT_REQUESTS
    /\ Len(Stored(rate_limiter_store, "10.0.0.1")) = RATE_LIMIT_REQUESTS
    /\ accepted["10.0.0.1"][1] > now - RATE_LIMIT_WINDOW
    /\ now > accepted["10.0.0.1"][RATE_LIMIT_REQUESTS]
    /\ Len(accepted["10.0.0.2"]) > 0

(***************************************************************************)
(* Properties of the single-request adapters, checked under SpecAdapter.   *)
(***************************************************************************)
\* C16: with its API key unset, each of the Polygon, Finnhub, Alpaca and Alpha
\* Vantage adapters returns [] without making a request and without raising: the
\* outcome after which an auto-mode fetch_stock_history moves to the next provider
C16_NoKeyNoRequest ==
    fn_out.fn \in {"polygon", "finnhub", "alpaca", "alpha_vantage"} /\ fn_in.api_key = "" =>
        /\ fn_out.res.kind = "list"
        /\ fn_out.res.out = <<>>
        /\ fn_out.res.requests = 0
        /\ OutcomeOf(fn_out.res.out) = "empty"

\* Alpaca called without a key while upstream would have had two good bars
C16_Witness ==
    /\ fn_out.fn = "alpaca"
    /\ fn_in.api_key = ""
    /\ Len(fn_in.data) = 2
    /\ Converts(fn_in.data)
    /\ fn_out.res.out = <<>>

\* the rows of a payload that are well-formed
WellFormed(data) == SelectSeq(data, LAMBDA row : row.ok = "ok")

\* C17: an adapter that made its request returns a bar for every well-formed row
\* of the payload and for no other: a malformed row is dropped on its own
C17_MalformedRowDropped ==
    fn_out.fn # None /\ fn_out.res.requests = 1 =>
        {fn_out.res.out[i].close : i \in 1..Len(fn_out.res.out)} =
            {WellFormed(fn_in.data)[i].close : i \in 1..Len(WellFormed(fn_in.data))}

(***************************************************************************)
(* Properties of the synthetic generator, checked under SpecMock.          *)
(***************************************************************************)
\* C18: two generations for the same symbol, interval and count at any two times of
\* the process return identical sequences: the same timestamps and the same values
C18_MockDeterministic ==
    fn_out.fn = "generate_realistic_ohlcv" => fn_out.res[1] = fn_out.res[2]

(***************************************************************************)
(* Properties of concurrent fetches, checked under SpecConcurrent.         *)
(***************************************************************************)
\* caller i has started an adapter call
Started(i) == tasks[i].pc \in {"call", "done"}

\* the latest adapter calls of callers i and j went to the same provider and
\* started less than MIN_REQUEST_INTERVAL apart
Unspaced(i, j) ==
    /\ Started(i) /\ Started(j)
    /\ tasks[i].prov = tasks[j].prov
    /\ tasks[i].start - tasks[j].start < MIN_REQUEST_INTERVAL
    /\ tasks[j].start - tasks[i].start < MIN_REQUEST_INTERVAL

\* C19: the spacing is only best-effort under concurrency: two adapter calls to one
\* provider start less than MIN_REQUEST_INTERVAL apart only when the callers
\* overlapped, each having entered (and read LAST_REQUEST_TIME) no later than the
\* other stamped it; the witness is such an interleaving
C19_UnspacedOnlyWhenRacing ==
    \A i \in Callers : \A j \in Callers \ {i} :
        Unspaced(i, j) =>
            /\ tasks[i].entered <= tasks[j].start
            /\ tasks[j].entered <= tasks[i].start

\* two callers read the same LAST_REQUEST_TIME before either wrote it, slept for the
\* same time and started their adapter calls in the same second
C19_Witness ==
    /\ tasks[1].pc = "call" /\ tasks[2].pc = "call"
    /\ Unspaced(1, 2)
    /\ tasks[1].seen = tasks[2].seen
    /\ tasks[1].entered = tasks[2].entered
    /\ tasks[1].wake = tasks[2].wake
    /\ tasks[1].wake > tasks[1].entered
    /\ tasks[1].start = tasks[2].start

\* the number of rows the first n answers of the upstream hold that parse
RECURSIVE Parsed(_, _)
Parsed(responses, n) ==
    IF n = 0 THEN 0
    ELSE LET series == Answer(responses, n - 1).series
         IN Parsed(responses, n - 1)
            + Cardinality({i \in 1..Len(series) : series[i].ok = "ok"})

\* C20: a call of fetch_ohlc_days_kraken returns after at most KRAKEN_SAFETY_LOOP
\* upstream requests whatever the upstream answers, and every request but the last
\* was answered without error by a page whose cursor was present and differed from
\* the cursor sent, so the loop stops at the first missing or unchanged cursor
C20_KrakenLoopBounded ==
    pg.adapter = "kraken" /\ pg.done =>
        /\ pg.requests >= 1
        /\ pg.requests <= KRAKEN_SAFETY_LOOP
        /\ \A k \in 0..(pg.requests - 2) :
              /\ Answer(pg.responses, k).kind = "ok"
              /\ Answer(pg.responses, k).last = "advanced"
        /\ pg.requests < KRAKEN_SAFETY_LOOP =>
              LET r == Answer(pg.responses, pg.requests - 1)
              IN \/ r.kind # "ok"
                 \/ r.last \in {"missing", "same"}
                 \/ \E i \in 1..Len(r.series) : r.series[i].ok = "null"
                 \/ r.series # <<>> /\ Parsed(pg.responses, pg.requests) >= pg.max_bars

\* the cursor advanced on every page and max_bars was never filled: the call stopped
\* at the safety bound
C20_Witness ==
    /\ pg.adapter = "kraken" /\ pg.done
    /\ pg.requests = KRAKEN_SAFETY_LOOP
    /\ pg.max_bars = KRAKEN_MAX_BARS
    /\ \A k \in 1..Len(pg.responses) : pg.responses[k].last = "advanced"
    /\ Len(pg.out) < pg.max_bars

\* C21: in the paginated history fetches an empty page ends pagination by itself:
\* no request is issued after a page that holds no bars, even if the cursor advanced
C21_EmptyPageEnds ==
    pg.done =>
        \A k \in 0..(pg.requests - 2) : Answer(pg.responses, k).series # <<>>

\* C22: for every max_bars >= 0 the list a paginated history fetch returns holds at
\* most max_bars bars
C22_AtMostMaxBars ==
    pg.done => Len(pg.out) <= pg.max_bars

\* C23: against an upstream whose every klines call succeeds and serves the requested
\* number of most recent bars from a history at least total_bars_needed long,
\* fetch_binance_ohlc_days returns total_bars_needed distinct bars
C23_ReturnsBarsNeeded ==
    fn_out.fn = "binance_days" /\ fn_in.history >= fn_out.res.total_bars_needed =>
        Cardinality(fn_out.res.out) = fn_out.res.total_bars_needed

\* C24: for a canonical pair BASE/USD that is not in the Binance alias table,
\* _to_binance_symbol returns the base unchanged followed by USDT, also for a base
\* that itself contains the letters USD
C24_OnlyQuoteRespelled ==
    \A b \in SymbolBases \ {<<>>} :
        /\ fn_out.fn = "binance"
        /\ fn_in = b \o Word.SLASH \o Word.USD
        /\ ~InTable(binance_mappings, b \o Word.USD)
        => fn_out.res.asis = b \o Word.USDT

\* C25: _to_kraken_pair does not depend on the separator: BASE/QUOTE, BASE-QUOTE and
\* BASEQUOTE map to the same native pair, and a quote of BTC gives a pair ending in
\* XBT whatever the separator
C25_SeparatorIndependent ==
    \A b \in SymbolBases \ {<<>>} : \A q \in SymbolQuotes \ {<<>>} :
        \A sep \in {<<>>, Word.SLASH, Word.DASH} :
            fn_out.fn = "kraken" /\ fn_in = b \o sep \o q =>
                /\ fn_out.res.asis = _to_kraken_pair(b \o Word.SLASH \o q)
                /\ q = Word.BTC => EndsWith(fn_out.res.asis, Word.XBT)

\* C26: the stock router honours provider spacing: two consecutive adapter calls of
\* one stock provider start at least MIN_REQUEST_INTERVAL apart
C26_StockSpacing ==
    stock_starts.min_gap = -1 \/ stock_starts.min_gap >= MIN_REQUEST_INTERVAL

\* C27: the terminal error message "All providers failed" is never sent after a
\* provider's stream delivered bars and then ended normally (it is sent only when
\* every provider failed or was skipped)
C27_ErrorOnlyWhenAllFailed ==
    /\ handler.pc = "returned"
    /\ handler.providers_to_try # <<>>
    /\ \E k \in 1..Len(handler.sent) : handler.sent[k].type = "error"
    => ~(handler.outcomes[Len(handler.outcomes)] = "ended" /\ handler.delivered > 0)

\* C28: once the message task was started, every exit of the handler cancels it or
\* finds it finished before the handler returns
C28_TaskCleanedUp ==
    handler.pc = "returned" /\ handler.message_task # None =>
        handler.message_task \in {"cancelled", "done"}

\* the request has a valid interval or output size
ValidParam ==
    CASE fn_in.endpoint = "intraday" -> fn_in.param \in valid_intervals
      [] fn_in.endpoint = "daily" -> fn_in.param \in {"compact", "full"}
      [] OTHER -> TRUE

\* the connector returned no data
NoData ==
    /\ fn_in.result.kind = "return"
    /\ fn_in.result.data \in (IF fn_in.endpoint = "quote" THEN {"empty"}
                              ELSE {"empty", "no_rows"})

\* C29: the Alpha Vantage endpoints answer with the status they raise: 404 when the
\* connector returns no data, 400 for an invalid interval or output size, and 500
\* only for an unexpected exception
C29_StatusAsRaised ==
    fn_out.fn \in {"quote", "intraday", "daily"} =>
        /\ ValidParam /\ NoData => fn_out.res = 404
        /\ ~ValidParam => fn_out.res = 400
        /\ fn_out.res = 500 => ValidParam /\ fn_in.result.kind = "raise"

\* C30: the indicator cache never serves a response computed for different request
\* parameters (symbol, market, interval, days, limit, provider, include_patterns), and
\* a request with cache_ttl = 0 is never served from the cache
C30_CacheServesSameRequest ==
    cache.answer.hit =>
        /\ cache.answer.request.cache_ttl > 0
        /\ \A f \in {"symbol", "market", "interval", "days", "limit", "provider",
                     "include_patterns"} :
              cache.answer.response[f] = cache.answer.request[f]

====
